---- MODULE Spec2Model ----
(***************************************************************************)
(* The OnQ sync pipeline of eduseek: the subprocess job supervisor         *)
(* (services/onq_subprocess_service.py), the POST /sync_lms layer on top   *)
(* of it (routers/lms.py), the worker process it spawns                    *)
(* (integrated_onq_scraper.py) and the in-process sync service             *)
(* (services/onq_sync_service.py).                                         *)
(*                                                                         *)
(* Conventions.  A JSON file is a sequence of length at most one: <<>> is  *)
(* "the file does not exist", <<r>> is a file holding r.  Python's None is *)
(* the string "null" for a text field and <<>> for an object field.  A     *)
(* job id (uuid4()[:8]) is modelled as a fresh number.  The server runs    *)
(* its handlers on one event loop and the supervisor's functions contain   *)
(* no await, so a handler is atomic with respect to the other handlers;    *)
(* it is NOT atomic with respect to the child process it has spawned,      *)
(* which is why start is split at the Popen call.                          *)
(***************************************************************************)
EXTENDS Integers, Sequences, FiniteSets, TLC

\* ------------------------------------------------------------------ bounds
MaxJobs == 3      \* jobs the supervisor is asked to start in one run
MaxFiles == 2     \* files one scrape can return
MaxLines == 3     \* lines of text on the page the 2FA number is looked for
MaxClock == 2     \* seconds of the clock that stamps renamed files
MaxEntries == 2   \* entries in the metadata of one batch
MaxRuns == 3      \* ingestion runs made on one batch
MaxLinks == 3     \* links the dashboard selectors return

JobIds == 1..MaxJobs

\* ------------------------------------------------------- program constants
LoginParams == 3       \* login_and_get_session(p, username, password)
LoginReturnLen == 3    \* return browser, context, page
WorkerLoginArgs == 4   \* login_and_get_session(p, username, password, status_callback)
WorkerUnpackLen == 4   \* browser, context, page, twofa_number = await ...
ServiceLoginArgs == 3  \* login_and_get_session(p, username, password)
ServiceUnpackLen == 3  \* browser, context, page = await ...
ExitOk == 0            \* asyncio.run(main()) returned
ExitFail == 1          \* sys.exit(1)
ExitTerminated == -15  \* Popen.terminate(): the negative signal number
ExitKilled == -9       \* Popen.kill() after the grace period

VARIABLES
  active_processes,  \* job ids tracked by the supervisor (keys of the dict)
  temp_files,        \* job ids with an entry in temp_files
  proc,              \* per job: the OS process, "unborn" | "running" | "exited"
  exitcode,          \* per job: the exit code once exited
  stderrPipe,        \* per job: the child's stderr, "empty" | "text" (in the pipe) | "read"
  statusFile,        \* per job: the status file
  resultsFile,       \* per job: the results file
  statusLog,         \* per job: every status written to its status file since it
                     \* was created, in order
  child,             \* per job: the worker's position in main() and its locals
  nextJob,           \* the next fresh job id
  parent,            \* <<>>, or <<j>> while start(j) is between Popen and its status write
  resp,              \* the last answer to a POST /sync_lms or a stop_onq_sync
  svc,               \* the in-process sync service: position and locals
  sync_status,       \* onq_sync_service.sync_status
  wait,              \* the 2FA wait loop of one login: position, clock, last poll
  detect,            \* the 2FA number detection of one login: the page and the result
  fs,                \* the downloads directory during one course scrape
  ingestion,         \* one run of ingest_course_json: its locals and the log
  backend,           \* the backend's files table and the ingestion runs made against it
  audit,             \* ingestion_log.json and the runs that are appending to it
  stamp,             \* the scrape_batch_id from a scrape to the ingestion of its metadata
  session,           \* the worker's browser block, on a login call that enters the function
  flow,              \* one run of login_and_get_session up to the classification of the page
  discovery          \* one course discovery on the dashboard: the links and the courses found

\* The state of the server, and the state of the library functions it calls,
\* which are examined one call at a time.
progVars == <<active_processes, temp_files, proc, exitcode, stderrPipe, statusFile,
              resultsFile, statusLog, child, nextJob, parent, resp, svc, sync_status>>

libVars == <<wait, detect, fs, ingestion, backend, audit, stamp, session, flow, discovery>>

vars == <<active_processes, temp_files, proc, exitcode, stderrPipe, statusFile, resultsFile,
          statusLog, child, nextJob, parent, resp, svc, sync_status, wait, detect, fs, ingestion, backend, audit, stamp, session, flow, discovery>>

\* ---------------------------------------------------------------- statuses
Null == "null"
Absent == "absent"     \* the key is not in the JSON object

\* The object written by write_status_update: is_running is always True.
StatusUpdate(step, progress, message, error, twofa_number) ==
  [is_running |-> TRUE, current_step |-> step, progress |-> progress,
   message |-> message, error |-> error,
   twofa_number |-> IF twofa_number = Null THEN Absent ELSE twofa_number,
   results |-> <<>>, has_results |-> FALSE, by |-> "child"]

\* The supervisor's initial status.
InitialStatusMutant ==
  [is_running |-> TRUE, current_step |-> "initializing", progress |-> 0,
   message |-> "Starting OnQ sync subprocess...", error |-> Null,
   twofa_number |-> Absent, results |-> <<>>, has_results |-> TRUE, by |-> "parent"]

InitialStatus ==
  [is_running |-> TRUE, current_step |-> "starting", progress |-> 0,
   message |-> "Starting OnQ sync subprocess...", error |-> Null,
   twofa_number |-> Absent, results |-> <<>>, has_results |-> TRUE, by |-> "parent"]

\* The worker's final status (is_running False, the results inlined).
FinalStatus(final_results) ==
  [is_running |-> FALSE, current_step |-> "completed", progress |-> 100,
   message |-> final_results.status, error |-> Null, twofa_number |-> Absent,
   results |-> <<final_results>>, has_results |-> TRUE, by |-> "child"]

\* The snapshot get_onq_sync_status starts from, before the file is read.
DefaultStatus(running) ==
  [is_running |-> running, current_step |-> "unknown", progress |-> 0,
   message |-> "No status available", error |-> Null, twofa_number |-> Absent,
   results |-> <<>>]

IdleStatus ==
  [is_running |-> FALSE, current_step |-> "idle", progress |-> 0,
   message |-> "No sync process found", error |-> Null, twofa_number |-> Absent,
   results |-> <<>>]

\* status.update(file_status): every key of the file replaces the default's;
\* "results" only when the file has the key (write_status_update writes none).
UpdateFromFile(status, f) ==
  [is_running |-> f.is_running, current_step |-> f.current_step,
   progress |-> f.progress, message |-> f.message, error |-> f.error,
   twofa_number |-> f.twofa_number,
   results |-> IF f.has_results THEN f.results ELSE status.results]

\* The status synthesized for a process that exited while the snapshot still
\* says is_running: "completed" for exit code 0, "error" otherwise.
CrashStatusMutant(status, code, results, stderr) ==
  [status EXCEPT !.is_running = FALSE, !.current_step = "completed",
                 !.progress = 100, !.message = "OnQ sync completed successfully",
                 !.error = Null, !.results = results]

\* process.communicate(timeout=1), returning only what is still in the pipe
communicateMutant(stderr) == stderr = "text"

\* process.communicate(timeout=1) on an exited process: whether it returns a
\* non-empty stderr.  The first call reads the pipe into the Popen object,
\* and every call returns what the object has collected.
communicate(stderr) == stderr \in {"text", "read"}

CrashStatus(status, code, results, stderr) ==
  IF code = ExitOk
    THEN [status EXCEPT !.is_running = FALSE, !.current_step = "completed",
                        !.progress = 100,
                        !.message = "OnQ sync completed successfully",
                        !.error = Null, !.results = results]
    ELSE LET error_msg == IF communicate(stderr) THEN "OnQ sync failed: <stderr>"
                                             ELSE "OnQ sync process failed"
         IN [status EXCEPT !.is_running = FALSE, !.current_step = "error",
                           !.progress = 0, !.message = error_msg,
                           !.error = error_msg, !.results = <<>>]

\* process.poll() is None
Alive(j) == proc[j] = "running"

\* The snapshot after the status file has been read (lines 157-174).
FileSnapshot(j) ==
  IF statusFile[j] # <<>>
    THEN UpdateFromFile(DefaultStatus(Alive(j)), statusFile[j][1])
    ELSE DefaultStatus(Alive(j))

\* poll_result is not None and status.get("is_running", True)
CrashDetectedMutant(j) == FALSE

CrashDetected(j) ==
  j \in active_processes /\ ~Alive(j) /\ FileSnapshot(j).is_running

\* get_onq_sync_status(job_id) for a given job id.
StatusOf(j) ==
  IF j \notin active_processes THEN IdleStatus
  ELSE IF CrashDetected(j)
    THEN CrashStatus(FileSnapshot(j), exitcode[j], resultsFile[j], stderrPipe[j])
    ELSE FileSnapshot(j)

\* job_id None (0 here) is the most recently started tracked job.
Max(S) == CHOOSE x \in S : \A y \in S : y <= x

ResolveJob(j) == IF j = 0 /\ active_processes # {} THEN Max(active_processes) ELSE j

\* ------------------------------------------------------------ supervisor
\* cleanup_completed_processes: the jobs whose process has exited.
CompletedJobsMutant == active_processes

CompletedJobs == {j \in active_processes : ~Alive(j)}

\* What cleanup_completed_processes leaves of the tables and of a file map.
CleanedActive == active_processes \ CompletedJobs

CleanedTemp == temp_files \ CompletedJobs

CleanedFiles(files) ==
  [j \in JobIds |-> IF j \in CompletedJobs /\ j \in temp_files THEN <<>> ELSE files[j]]

\* del active_processes[job_id] drops the Popen object and what it held (the
\* exit code, the pipes); what is known of the process goes with it.
Forgotten(field, blank) ==
  [j \in JobIds |-> IF j \in CompletedJobs THEN blank ELSE field[j]]

\* get_active_jobs()["active_jobs"] after its cleanup: the jobs listed with
\* is_running true.
RunningJobsMutant == {}

RunningJobs == {j \in CleanedActive : Alive(j)}

Response(op, job, out) == [op |-> op, out |-> out]

\* What the worker is given: the credentials on its command line.  What it
\* meets: the login page's behaviour (LoginEnvs) and the child's stdin.
Creds == {"given", "empty"}

LoginEnvs == {"dashboard", "twofa_ok", "twofa_timeout", "unclassified",
              "no_field", "no_browser"}

NewChild(creds) ==
  [pc |-> "boot", creds |-> creds, env |-> "none", events |-> {},
   files |-> 0, json |-> FALSE, uploaded |-> 0, duplicate |-> 0, failed |-> 0,
   missing |-> 0, uploads |-> 0, browser |-> "none"]

NoChild == NewChild("given")

\* The memory of a process that has exited is gone; what is kept of it is
\* what happened in it.
ExitedChild(c) == [NoChild EXCEPT !.pc = "done", !.events = c.events]

GoneChild == [NoChild EXCEPT !.pc = "done"]

\* POST /sync_lms: get_active_jobs() (which sweeps first), HTTP 400 when a job
\* is listed as running, otherwise start_onq_sync_subprocess up to and
\* including the Popen call and the table entry (lines 33-90).  popen_ok = FALSE
\* is Popen raising: start returns status "error", the router answers 500.
SyncLms(creds, popen_ok) ==
  /\ parent = <<>>
  /\ nextJob <= MaxJobs
  /\ UNCHANGED <<svc, sync_status>>
  /\ proc' = IF RunningJobs = {} /\ popen_ok
               THEN [proc EXCEPT ![nextJob] = "running"] ELSE proc
  /\ statusFile' = CleanedFiles(statusFile)
  /\ resultsFile' = CleanedFiles(resultsFile)
  /\ statusLog' = CleanedFiles(statusLog)
  /\ exitcode' = Forgotten(exitcode, 0)
  /\ stderrPipe' = Forgotten(stderrPipe, "empty")
  /\ IF RunningJobs # {}
       THEN /\ active_processes' = CleanedActive
            /\ temp_files' = CleanedTemp
            /\ child' = Forgotten(child, GoneChild)
            /\ resp' = Response("sync_lms", Max(RunningJobs), "400")
            /\ UNCHANGED <<nextJob, parent>>
       ELSE /\ temp_files' = CleanedTemp \cup {nextJob}
            /\ nextJob' = nextJob + 1
            /\ IF popen_ok
                 THEN /\ child' = [Forgotten(child, GoneChild)
                                     EXCEPT ![nextJob] = NewChild(creds)]
                      /\ active_processes' = CleanedActive \cup {nextJob}
                      /\ parent' = <<nextJob>>
                      /\ resp' = Response("sync_lms", nextJob, "started")
                 ELSE /\ child' = Forgotten(child, GoneChild)
                      /\ active_processes' = CleanedActive
                      /\ resp' = Response("sync_lms", 0, "500")
                      /\ UNCHANGED parent

\* start_onq_sync_subprocess, lines 92-114: the initial status is written
\* after the child has been spawned, then start returns.
StartWriteInitial ==
  /\ parent # <<>>
  /\ LET j == parent[1]
     IN /\ statusFile' = [statusFile EXCEPT ![j] = <<InitialStatus>>]
        /\ statusLog' = [statusLog EXCEPT ![j] = Append(@, InitialStatus)]
  /\ parent' = <<>>
  /\ UNCHANGED <<active_processes, temp_files, proc, exitcode, stderrPipe,
                 resultsFile, child, nextJob, resp, svc, sync_status>>

\* GET /sync_lms/status: get_onq_sync_status(job_id).  Its error branch reads
\* the child's stderr (process.communicate): what was in the pipe is from
\* then on in the Popen object.
StatusPoll(job) ==
  /\ parent = <<>>
  /\ LET j == ResolveJob(job)
     IN /\ stderrPipe' = IF /\ j \in JobIds /\ CrashDetected(j) /\ exitcode[j] # ExitOk
                              /\ stderrPipe[j] = "text"
                           THEN [stderrPipe EXCEPT ![j] = "read"]
                           ELSE stderrPipe
  /\ UNCHANGED <<active_processes, temp_files, proc, exitcode, statusFile,
                 resultsFile, statusLog, child, nextJob, parent, resp, svc,
                 sync_status>>

\* cleanup_completed_processes()
Cleanup ==
  /\ parent = <<>>
  /\ active_processes' = CleanedActive
  /\ temp_files' = CleanedTemp
  /\ statusFile' = CleanedFiles(statusFile)
  /\ resultsFile' = CleanedFiles(resultsFile)
  /\ statusLog' = CleanedFiles(statusLog)
  /\ exitcode' = Forgotten(exitcode, 0)
  /\ stderrPipe' = Forgotten(stderrPipe, "empty")
  /\ child' = Forgotten(child, GoneChild)
  /\ UNCHANGED <<proc, nextJob, parent, resp, svc, sync_status>>

\* GET /sync_lms/jobs: get_active_jobs(), the sweep and then the listing.
ListJobs ==
  /\ parent = <<>>
  /\ active_processes' = CleanedActive
  /\ temp_files' = CleanedTemp
  /\ statusFile' = CleanedFiles(statusFile)
  /\ resultsFile' = CleanedFiles(resultsFile)
  /\ statusLog' = CleanedFiles(statusLog)
  /\ exitcode' = Forgotten(exitcode, 0)
  /\ stderrPipe' = Forgotten(stderrPipe, "empty")
  /\ child' = Forgotten(child, GoneChild)
  /\ UNCHANGED <<proc, nextJob, parent, resp, svc, sync_status>>

\* stop_onq_sync(job_id): terminate, wait up to 5 s, kill; the process has
\* exited when it returns.
StopOutcomeMutant(j) ==
  IF j \notin active_processes THEN "error" ELSE "stopped"

StopOutcome(j) ==
  IF j \notin active_processes THEN "error"
  ELSE IF Alive(j) THEN "stopped" ELSE "already_finished"

Stop(j) ==
  /\ parent = <<>>
  /\ resp' = Response("stop", j, StopOutcome(j))
  /\ IF StopOutcome(j) = "stopped"
       THEN /\ proc' = [proc EXCEPT ![j] = "exited"]
            /\ \E code \in {ExitTerminated, ExitKilled} :
                 exitcode' = [exitcode EXCEPT ![j] = code]
            /\ child' = [child EXCEPT ![j] = ExitedChild(@)]
       ELSE UNCHANGED <<proc, exitcode, child>>
  /\ UNCHANGED <<active_processes, temp_files, stderrPipe, statusFile, resultsFile,
                 statusLog, nextJob, parent, svc, sync_status>>

\* ------------------------------------------------------------- the login
\* login_and_get_session as its callers see it.  A call with a number of
\* positional arguments other than the function's parameters raises TypeError
\* before the body runs; a returned tuple of another length than the caller
\* unpacks raises ValueError in the caller, after the browser was launched.
\* Otherwise the outcome is the page's: the dashboard, a 2FA challenge that
\* is answered in time or not, an unclassifiable page, a missing field, or
\* no browser to launch.
Raised(msg, launched) ==
  [kind |-> "raised", msg |-> msg, launched |-> launched, twofa |-> FALSE]

LoginCall(nargs, unpack, env) ==
  IF nargs # LoginParams THEN Raised("TypeError", FALSE)
  ELSE IF env = "no_browser" THEN Raised("Could not launch any browser", FALSE)
  ELSE IF env = "no_field" THEN Raised("Username field not found", TRUE)
  ELSE IF env = "unclassified" THEN Raised("could not detect 2FA or reach dashboard", TRUE)
  ELSE IF env = "twofa_timeout" THEN Raised("Post-2FA timeout", TRUE)
  ELSE IF unpack # LoginReturnLen THEN Raised("ValueError", TRUE)
  ELSE [kind |-> "returned", msg |-> Null, launched |-> TRUE,
        twofa |-> (env = "twofa_ok")]

\* "2FA" in str(e) or "two-factor" in str(e).lower()
Mentions2FA(msg) == msg \in {"could not detect 2FA or reach dashboard", "Post-2FA timeout"}

\* The page the login meets shows a 2FA challenge.
TwoFactorEnv(env) == env \in {"twofa_ok", "twofa_timeout"}

\* scrape_onq_files_with_authentication: its whole body is inside
\* try/except Exception, so it returns a result and never raises.
ScrapeOutcomes ==
  {[raised |-> FALSE, files |-> n, json |-> b] : n \in 0..MaxFiles, b \in BOOLEAN}

\* ingest_course_json on n entries: it raises when the metadata file cannot
\* be read, otherwise every entry is counted once.
IngestOutcomes(n) ==
  {[raised |-> TRUE, uploaded |-> 0, duplicate |-> 0, failed |-> 0, missing |-> 0]}
  \cup {[raised |-> FALSE, uploaded |-> t[1], duplicate |-> t[2], failed |-> t[3],
         missing |-> n - t[1] - t[2] - t[3]] :
          t \in {x \in (0..n) \X (0..n) \X (0..n) : x[1] + x[2] + x[3] <= n}}

\* ------------------------------------------------------------ the worker
\* The statuses main() writes.
InitializingStatus == StatusUpdate("initializing", 0, "Starting OnQ sync...", Null, Null)

LoginStatus == StatusUpdate("login", 20, "Logging into OnQ...", Null, Null)

CredentialsErrorStatus(msg) ==
  StatusUpdate("error", 0, "Error getting credentials", msg, Null)

LoginCompleteStatus ==
  StatusUpdate("login_complete", 35, "proceeding to file scraping...", Null, Null)

ScrapingStatus ==
  StatusUpdate("scraping", 40, "Login successful, starting file scraping...", Null, Null)

ProcessingStatus == StatusUpdate("processing", 70, "Processing scraped files...", Null, Null)

ScrapingErrorStatus(msg) == StatusUpdate("error", 0, "Scraping failed", msg, Null)

LoginErrorStatusMutant(msg) == StatusUpdate("login_failed", 0, "Login failed", msg, Null)

LoginErrorStatus(msg) ==
  IF Mentions2FA(msg)
    THEN StatusUpdate("error", 0, "Two-factor authentication required", msg, Null)
    ELSE StatusUpdate("error", 0, "Login failed", msg, Null)

IngestingStatus == StatusUpdate("ingesting", 90, "Ingesting files into backend...", Null, Null)

IngestionErrorStatus(msg) == StatusUpdate("error", 0, "Ingestion failed", msg, Null)

\* "completed" if not files or uploaded > 0 else "failed"
FinalResultStatus(files, uploaded) ==
  IF files = 0 \/ uploaded > 0 THEN "completed" ELSE "failed"

FinalResults(c) ==
  [status |-> FinalResultStatus(c.files, c.uploaded), total_files |-> c.files,
   uploaded |-> c.uploaded, duplicates |-> c.duplicate, failed |-> c.failed,
   missing |-> c.missing]

CompletedStatus(c) ==
  StatusUpdate("completed", 100,
               IF FinalResultStatus(c.files, c.uploaded) = "completed"
                 THEN "Sync complete!" ELSE "Sync completed with issues.",
               Null, Null)

\* One step of the worker: its next position and locals, the status it writes
\* (at most one), the results file it writes, the exit code it exits with.
Step(c, write, res, exit) == [c |-> c, write |-> write, res |-> res, exit |-> exit]

\* What the child reads on its stdin when it prompts for credentials.
StdinOutcomes == {"eof", "typed", "typed_empty"}

\* Where main() goes after the login call (lines 160-201).
AfterLoginCall(c, r) ==
  IF r.kind = "raised"
    THEN Step([c EXCEPT !.pc = "returned",
                        !.events = @ \cup {"login_called", "login_failed"},
                        !.browser = IF r.launched THEN "leaked" ELSE "none"],
              <<LoginErrorStatus(r.msg)>>, <<>>, <<>>)
    ELSE Step([c EXCEPT !.pc = "login_complete",
                        !.events = @ \cup {"login_called", "login_returned"},
                        !.browser = "open"],
              <<LoginCompleteStatus>>, <<>>, <<>>)

WorkerNext(c, env) ==
  CASE c.pc = "boot" ->
         \* lines 128-146: the credentials, then the first status
         IF c.creds = "given"
           THEN {Step([c EXCEPT !.pc = "initialized"], <<InitializingStatus>>, <<>>, <<>>)}
           ELSE {Step([c EXCEPT !.pc = "returned"],
                      <<CredentialsErrorStatus("EOF when reading a line")>>, <<>>, <<>>),
                 Step([c EXCEPT !.pc = "initialized"], <<InitializingStatus>>, <<>>, <<>>),
                 Step([c EXCEPT !.pc = "done"], <<>>, <<>>, <<ExitFail>>)}
    [] c.pc = "initialized" ->
         \* line 150
         {Step([c EXCEPT !.pc = "login"], <<LoginStatus>>, <<>>, <<>>)}
    [] c.pc = "login" ->
         \* lines 158-201: async_playwright() fails to start (the exception
         \* leaves main and __main__ exits 1), or the login call is made
         {Step([c EXCEPT !.pc = "done"], <<>>, <<>>, <<ExitFail>>),
          AfterLoginCall([c EXCEPT !.env = env],
                         LoginCall(WorkerLoginArgs, WorkerUnpackLen, env))}
    [] c.pc = "login_complete" ->
         \* line 174
         {Step([c EXCEPT !.pc = "scraping", !.events = @ \cup {"scrape_started"}],
               <<ScrapingStatus>>, <<>>, <<>>)}
    [] c.pc = "scraping" ->
         \* lines 175-210: the scrape, its status, the browser closed
         {IF o.raised
            THEN Step([c EXCEPT !.pc = "scraped", !.files = 0, !.json = FALSE,
                                !.browser = "closed"],
                      <<ScrapingErrorStatus("scrape")>>, <<>>, <<>>)
            ELSE Step([c EXCEPT !.pc = "scraped", !.files = o.files, !.json = o.json,
                                !.events = @ \cup {"scrape_returned"},
                                !.browser = "closed"],
                      <<ProcessingStatus>>, <<>>, <<>>) : o \in ScrapeOutcomes}
    [] c.pc = "scraped" ->
         \* lines 213-263
         IF c.files > 0 /\ c.json
           THEN {Step([c EXCEPT !.pc = "ingesting", !.events = @ \cup {"ingest_started"}],
                      <<IngestingStatus>>, <<>>, <<>>)}
           ELSE {Step([c EXCEPT !.pc = "report"], <<>>, <<>>, <<>>)}
    [] c.pc = "ingesting" ->
         \* lines 242-259
         {IF o.raised
            THEN Step([c EXCEPT !.pc = "report", !.failed = c.files],
                      <<IngestionErrorStatus("ingest")>>, <<>>, <<>>)
            ELSE Step([c EXCEPT !.pc = "report", !.uploaded = o.uploaded,
                                !.duplicate = o.duplicate, !.failed = o.failed,
                                !.missing = o.missing,
                                !.uploads = c.files - o.missing],
                      <<>>, <<>>, <<>>) : o \in IngestOutcomes(c.files)}
    [] c.pc = "report" ->
         \* lines 269-288
         {Step([c EXCEPT !.pc = "completed_written"], <<CompletedStatus(c)>>, <<>>, <<>>)}
    [] c.pc = "completed_written" ->
         \* lines 291-304
         {Step([c EXCEPT !.pc = "final_written"], <<FinalStatus(FinalResults(c))>>, <<>>, <<>>)}
    [] c.pc = "final_written" ->
         \* line 306
         {Step([c EXCEPT !.pc = "returned"], <<>>, <<FinalResults(c)>>, <<>>)}
    [] c.pc = "returned" ->
         \* main() returned: asyncio.run returns and the interpreter exits 0
         {Step([c EXCEPT !.pc = "done"], <<>>, <<>>, <<ExitOk>>)}
    [] OTHER -> {}

\* The worker process of job j takes one step.  What it has written to its
\* stderr by the time it exits is the environment's.
WorkerStep(j) ==
  /\ proc[j] = "running"
  /\ \E env \in LoginEnvs : \E o \in WorkerNext(child[j], env) :
       /\ child' = [child EXCEPT ![j] = IF o.exit # <<>> THEN ExitedChild(o.c) ELSE o.c]
       /\ IF o.write # <<>>
            THEN /\ statusFile' = [statusFile EXCEPT ![j] = o.write]
                 /\ statusLog' = [statusLog EXCEPT ![j] = Append(@, o.write[1])]
            ELSE UNCHANGED <<statusFile, statusLog>>
       /\ resultsFile' = IF o.res # <<>> THEN [resultsFile EXCEPT ![j] = o.res]
                                         ELSE resultsFile
       /\ IF o.exit # <<>>
            THEN /\ proc' = [proc EXCEPT ![j] = "exited"]
                 /\ exitcode' = [exitcode EXCEPT ![j] = o.exit[1]]
                 /\ \E e \in {"empty", "text"} :
                      stderrPipe' = [stderrPipe EXCEPT ![j] = e]
            ELSE UNCHANGED <<proc, exitcode, stderrPipe>>
  /\ UNCHANGED <<active_processes, temp_files, nextJob, parent, resp, svc, sync_status>>

\* --------------------------------------------------- the in-process service
\* onq_sync_service.sync_status after sync_status.update(...).
SyncStatus(running, step, progress, error) ==
  [is_running |-> running, current_step |-> step, progress |-> progress,
   error |-> error]

IdleSyncStatus == SyncStatus(FALSE, "idle", 0, Null)

NewSvc(creds, env) ==
  [pc |-> "started", creds |-> creds, env |-> env, events |-> {}, files |-> 0,
   json |-> FALSE, uploads |-> 0, browser |-> "none", ret |-> "none"]

IdleSvc == [NewSvc("given", "dashboard") EXCEPT !.pc = "idle"]

\* Where sync_onq_files goes after the login call (lines 90-135): on to the
\* scrape, or out with "twofa_required" or (re-raised) with "error".
SvcAfterLoginCallMutant(s, r) ==
  [s |-> [s EXCEPT !.pc = "scraping",
                   !.events = @ \cup {"login_called", "scrape_started"}
                                \cup (IF r.kind = "raised" THEN {"login_failed"}
                                                           ELSE {"login_returned"}),
                   !.browser = "open"],
   status |-> SyncStatus(TRUE, "scraping", 40, Null)]

SvcAfterLoginCall(s, r) ==
  IF r.kind = "raised"
    THEN [s |-> [s EXCEPT !.pc = "idle",
                          !.events = @ \cup {"login_called", "login_failed"},
                          !.browser = IF r.launched THEN "leaked" ELSE "none",
                          !.ret = IF Mentions2FA(r.msg) THEN "twofa_required"
                                                        ELSE "error"],
          status |-> SyncStatus(FALSE, "error", 0, r.msg)]
    ELSE [s |-> [s EXCEPT !.pc = "scraping",
                          !.events = @ \cup {"login_called", "login_returned",
                                             "scrape_started"},
                          !.browser = "open"],
          status |-> SyncStatus(TRUE, "scraping", 40, Null)]

SvcFinal(s) ==
  [s |-> [s EXCEPT !.pc = "idle", !.ret = "success"],
   status |-> SyncStatus(FALSE, "completed", 100, Null)]

SvcNext(s) ==
  CASE s.pc = "started" ->
         \* lines 75-83: the inputs are validated, then the login status
         IF s.creds = "empty"
           THEN {[s |-> [s EXCEPT !.pc = "idle", !.ret = "error"],
                  status |-> SyncStatus(FALSE, "error", 0,
                                        "Username and password are required")]}
           ELSE {[s |-> [s EXCEPT !.pc = "login"],
                  status |-> SyncStatus(TRUE, "login", 20, Null)]}
    [] s.pc = "login" ->
         {SvcAfterLoginCall(s, LoginCall(ServiceLoginArgs, ServiceUnpackLen, s.env))}
    [] s.pc = "scraping" ->
         \* lines 99-135: the scrape returns, the browser is closed
         {[s |-> [s EXCEPT !.pc = "processing", !.files = o.files, !.json = o.json,
                           !.events = @ \cup {"scrape_returned"},
                           !.browser = "closed"],
           status |-> SyncStatus(TRUE, "processing", 70, Null)] : o \in ScrapeOutcomes}
    [] s.pc = "processing" ->
         \* lines 138-153
         IF s.json
           THEN {[s |-> [s EXCEPT !.pc = "ingesting",
                                  !.events = @ \cup {"ingest_started"}],
                  status |-> SyncStatus(TRUE, "ingesting", 90, Null)]}
           ELSE {SvcFinal(s)}
    [] s.pc = "ingesting" ->
         \* lines 155-196
         {SvcFinal([s EXCEPT !.uploads = IF o.raised THEN 0
                                         ELSE s.files - o.missing]) :
            o \in IngestOutcomes(s.files)}
    [] OTHER -> {}

\* sync_onq_files(username, password) is called (lines 59-71).
SvcStart(creds, env) ==
  /\ svc.pc = "idle"
  /\ svc' = NewSvc(creds, env)
  /\ sync_status' = SyncStatus(TRUE, "initializing", 0, Null)
  /\ UNCHANGED <<active_processes, temp_files, proc, exitcode, stderrPipe,
                 statusFile, resultsFile, statusLog, child, nextJob, parent, resp>>

\* sync_onq_files runs to its next suspension point.
SvcStep ==
  /\ \E o \in SvcNext(svc) :
       /\ svc' = o.s
       /\ sync_status' = o.status
  /\ UNCHANGED <<active_processes, temp_files, proc, exitcode, stderrPipe,
                 statusFile, resultsFile, statusLog, child, nextJob, parent, resp>>

\* reset_sync_status()
ResetSyncStatus ==
  /\ sync_status' = IdleSyncStatus
  /\ UNCHANGED <<active_processes, temp_files, proc, exitcode, stderrPipe,
                 statusFile, resultsFile, statusLog, child, nextJob, parent, resp,
                 svc>>

\* ------------------------------------------------- the 2FA wait of a login
\* login_and_get_session, lines 386-541: once a 2FA challenge is recognised
\* the function polls the page until the dashboard is confirmed or
\* timeout_seconds have passed.  Each poll sees the page as it is after the
\* one-second sleep; what the page is at each poll is the environment's.
timeout_seconds == 120

PollSleep == 1

NetworkIdleTimeout == 10

SettleSleep == 2

\* A "No" control of the interstitial: not in the DOM, visible and clickable,
\* or visible with a click that raises.
Selector == {"absent", "visible", "broken"}

\* The pages a poll can see: where the browser is (the identity provider's
\* login page, its /SAS/ProcessAuth page, or a URL of onq.queensu.ca), the two
\* "No" controls, whether Tab+Enter goes through, whether a navigation element
\* is visible, whether the content holds "Dashboard" or "My Courses", and
\* whether the page is in mid-navigation, so that page.content() raises.
\* Fields that a poll of the page never reads are held at one value.
WaitPages ==
  {pg \in [url : {"login", "processauth", "onq"}, primary : Selector,
           fallback : Selector, keys : BOOLEAN, nav : BOOLEAN, text : BOOLEAN,
           navigating : BOOLEAN] :
     /\ ("visible" \in {pg.primary, pg.fallback}) => pg.keys
     /\ (pg.url # "processauth" /\ pg.primary = "absent" /\ pg.fallback = "absent")
          => pg.keys
     /\ (pg.url # "onq" \/ pg.primary # "absent" \/ pg.fallback # "absent")
          => (~pg.nav /\ ~pg.text /\ ~pg.navigating)
     /\ pg.navigating => ~pg.text}

NoPage ==
  [url |-> "login", primary |-> "absent", fallback |-> "absent", keys |-> TRUE,
   nav |-> FALSE, text |-> FALSE, navigating |-> FALSE]

\* lines 399-421: by URL only
StaySignedInDetectedMutant(pg) ==
  IF pg.url = "processauth" THEN "url" ELSE "none"

\* lines 399-421: how the "stay signed in?" interstitial is recognised
StaySignedInDetected(pg) ==
  IF pg.url = "processauth" THEN "url"
  ELSE IF pg.primary # "absent" THEN "dom"
  ELSE IF pg.fallback # "absent" THEN "dom"
  ELSE "none"

\* lines 428-479: how "No" is answered
ClickNo(pg) ==
  IF pg.primary = "visible" THEN "primary"
  ELSE IF pg.fallback = "visible" THEN "fallback"
  ELSE IF pg.keys THEN "keyboard"
  ELSE "none"

\* line 501
DashboardUrl(pg) == pg.url = "onq"

\* lines 509-530
DashboardConfirmed(pg) == pg.nav \/ pg.text

PollResult(detected, click, result, cost) ==
  [detected |-> detected, click |-> click, result |-> result, cost |-> cost]

\* One pass of the loop body (lines 396-534) on the page it sees: what it
\* recognised, what it clicked, how it ended and how long it took.  After a
\* click the wait for the network to go idle returns at once or runs into its
\* timeout.
PollOnce(pg) ==
  IF StaySignedInDetected(pg) # "none"
    THEN IF ClickNo(pg) = "none"
           THEN {PollResult(StaySignedInDetected(pg), "none", "continue", PollSleep)}
           ELSE {PollResult(StaySignedInDetected(pg), ClickNo(pg), "continue",
                            PollSleep + n + SettleSleep) : n \in {0, NetworkIdleTimeout}}
  ELSE IF DashboardUrl(pg)
    THEN IF pg.navigating
           THEN {PollResult("none", "none", "error", PollSleep + SettleSleep)}
         ELSE IF DashboardConfirmed(pg)
           THEN {PollResult("none", "none", "returned", PollSleep + SettleSleep)}
         ELSE {PollResult("none", "none", "continue", PollSleep + SettleSleep)}
  ELSE {PollResult("none", "none", "continue", PollSleep)}

IdleWait ==
  [pc |-> "idle", elapsed |-> 0, started |-> 0, polls |-> 0, seen |-> NoPage,
   detected |-> "none", click |-> "none", outcome |-> "none"]

\* lines 382-393: the 2FA branch is entered and the clock started
WaitStart ==
  /\ wait.pc = "idle"
  /\ wait' = [wait EXCEPT !.pc = "loop"]
  /\ UNCHANGED progVars

\* lines 395-534: the loop condition holds and the body runs once
WaitPoll ==
  /\ wait.pc = "loop"
  /\ wait.elapsed < timeout_seconds
  /\ \E pg \in WaitPages : \E r \in PollOnce(pg) :
       wait' = [pc |-> IF r.result = "continue" THEN "loop" ELSE "done",
                elapsed |-> wait.elapsed + r.cost,
                started |-> wait.elapsed,
                polls |-> IF wait.polls = 0 THEN 1 ELSE wait.polls,
                seen |-> pg,
                detected |-> r.detected,
                click |-> r.click,
                outcome |-> IF r.result = "continue" THEN "none" ELSE r.result]
  /\ UNCHANGED progVars

\* lines 536-541: the loop condition fails and the timeout is raised
WaitTimeout ==
  /\ wait.pc = "loop"
  /\ wait.elapsed >= timeout_seconds
  /\ wait' = [wait EXCEPT !.pc = "done", !.outcome = "timeout"]
  /\ UNCHANGED progVars

\* ------------------------------------------- the 2FA number of a login
\* login_and_get_session, lines 213-349.  The page is the text of its visible
\* elements, line by line: what a line says (the phrases the code looks for
\* that occur in it), whether it holds a 2-digit number (\b\d{2}\b), and
\* whether it is the first line of its element.  The number on line i of the
\* page is LineNumber(i), so that a result tells the line it was taken from;
\* the number in the display element is DisplayNumber.
target_phrases == {"enter the number shown to sign in", "open your authenticator app"}

exclusion_phrases == {"don't ask again for", "remember this device", "stay signed in"}

general_phrases == {"authenticator", "verification", "approve", "sign in"}

\* The wordings a line of a page is made of.
Wordings == {"enter the number shown to sign in", "don't ask again for", "approve"}

\* phrase in wording
Substring(phrase, wording) ==
  \/ phrase = wording
  \/ <<phrase, wording>> \in {<<"sign in", "enter the number shown to sign in">>,
                              <<"authenticator", "open your authenticator app">>}

\* any(phrase in line_lower for phrase in phrases)
AnyPhraseIn(phrases, line) ==
  \E phrase \in phrases : \E wording \in line.text : Substring(phrase, wording)

Lines == [text : SUBSET Wordings, num : BOOLEAN, first : BOOLEAN]

Pages ==
  UNION {{pg \in [1..n -> Lines] : n > 0 => pg[1].first} : n \in 0..MaxLines}

\* #idRichContext_DisplaySign: not found within the timeout, found without a
\* 2-digit number in its text, or found with one.
Displays == {"absent", "no_number", "number"}

DisplayNumber == 99

LineNumber(i) == 10 + i

\* line_idx: the position of line i within its element, from 0
LineIdx(pg, i) == i - Max({k \in 1..i : pg[k].first})

\* lines 287-314, without the exclusion test
ClassifyMutant(pg, i) ==
  IF AnyPhraseIn(target_phrases, pg[i]) THEN "same_line"
  ELSE IF LineIdx(pg, i) > 0 /\ AnyPhraseIn(target_phrases, pg[i - 1]) THEN "following_line"
  ELSE IF AnyPhraseIn(general_phrases, pg[i]) THEN "general_context"
  ELSE "ignored"

\* lines 287-314: the class of the number on line i
Classify(pg, i) ==
  IF AnyPhraseIn(exclusion_phrases, pg[i]) THEN "excluded"
  ELSE IF AnyPhraseIn(target_phrases, pg[i]) THEN "same_line"
  ELSE IF LineIdx(pg, i) > 0 /\ AnyPhraseIn(target_phrases, pg[i - 1]) THEN "following_line"
  ELSE IF AnyPhraseIn(general_phrases, pg[i]) THEN "general_context"
  ELSE "ignored"

\* lines 269-282: the lines that hold a number, in page order
all_candidates(pg) == {i \in 1..Len(pg) : pg[i].num}

strong_candidates(pg) ==
  {i \in all_candidates(pg) : Classify(pg, i) \in {"same_line", "following_line"}}

weak_candidates(pg) ==
  {i \in all_candidates(pg) : Classify(pg, i) = "general_context"}

same_line_candidates(pg) ==
  {i \in strong_candidates(pg) : Classify(pg, i) = "same_line"}

\* candidates[0]
First(S) == CHOOSE i \in S : \A k \in S : i <= k

\* lines 328-343, taking the first strong candidate of either kind
PickCandidateMutant(pg) ==
  IF strong_candidates(pg) # {} THEN <<LineNumber(First(strong_candidates(pg)))>>
  ELSE IF weak_candidates(pg) # {} THEN <<LineNumber(First(weak_candidates(pg)))>>
  ELSE <<>>

\* lines 328-343: the best candidate, <<>> for None
PickCandidate(pg) ==
  IF strong_candidates(pg) # {}
    THEN IF same_line_candidates(pg) # {}
           THEN <<LineNumber(First(same_line_candidates(pg)))>>
           ELSE <<LineNumber(First(strong_candidates(pg)))>>
  ELSE IF weak_candidates(pg) # {} THEN <<LineNumber(First(weak_candidates(pg)))>>
  ELSE <<>>

\* lines 218-349: twofa_number
DetectTwoFaNumber(display, pg) ==
  IF display = "number" THEN <<DisplayNumber>> ELSE PickCandidate(pg)

IdleDetect == [pc |-> "idle", display |-> "absent", page |-> <<>>, twofa_number |-> <<>>]

\* lines 195-211: the page after the password was submitted
DetectLoad(display, pg) ==
  /\ detect.pc = "idle"
  /\ detect' = [detect EXCEPT !.pc = "loaded", !.display = display, !.page = pg]
  /\ UNCHANGED progVars

\* lines 213-349
DetectRun ==
  /\ detect.pc = "loaded"
  /\ detect' = [detect EXCEPT !.pc = "done",
                              !.twofa_number = DetectTwoFaNumber(detect.display, detect.page)]
  /\ UNCHANGED progVars

\* --------------------------------------------- files of one course scrape
\* scrape_onq_files.py: get_unique_filename (lines 60-73) and the part of
\* OnQFileScraper.scrape_course_files that saves the archive and copies its
\* files into the downloads directory (lines 170-269).  A path is what
\* os.path.splitext makes of it, the base and the extension; the base is the
\* name followed by the timestamps appended to it.  The disk tells, for each
\* path of the downloads directory, whether a file is there and whether this
\* scrape wrote it.
ZipName == "Table of Contents.zip"

ArchiveNames == {"a.pdf", "sub/README"}

\* os.path.splitext
SplitExt(name) ==
  CASE name = "a.pdf" -> <<"a", ".pdf">>
    [] name = "sub/README" -> <<"sub/README", "">>
    [] name = ZipName -> <<"Table of Contents", ".zip">>

\* os.path.join(downloads_dir, name)
RawPath(name) == [base |-> <<SplitExt(name)[1]>>, ext |-> SplitExt(name)[2]]

\* datetime.datetime.now().strftime('%Y%m%d-%H%M%S'): the second of the call
TimeStamps == 1..MaxClock

DiskPaths ==
  {[base |-> RawPath(n).base \o s, ext |-> RawPath(n).ext] :
     n \in ArchiveNames \cup {ZipName},
     s \in {<<>>} \cup {<<t>> : t \in TimeStamps}}

\* What was in the downloads directory before the scrape.
Disks == [DiskPaths -> {"none", "old"}]

Resolved(path, action) == [path |-> path, action |-> action]

\* lines 60-73, renaming to the path itself
get_unique_filenameMutant(disk, path, strategy, ts) ==
  IF disk[path] = "none" THEN Resolved(<<path>>, Null)
  ELSE IF strategy = "overwrite" THEN Resolved(<<path>>, "overwrite")
  ELSE IF strategy = "skip" THEN Resolved(<<>>, "skip")
  ELSE Resolved(<<path>>, "rename")

\* lines 60-73; ts is the second at which the call is made
get_unique_filename(disk, path, strategy, ts) ==
  IF disk[path] = "none" THEN Resolved(<<path>>, Null)
  ELSE IF strategy = "overwrite" THEN Resolved(<<path>>, "overwrite")
  ELSE IF strategy = "skip" THEN Resolved(<<>>, "skip")
  ELSE Resolved(<<[path EXCEPT !.base = Append(@, ts)]>>, "rename")

\* A file written into the downloads directory: where, what, and whether a
\* file was at that path before the write.
Written(path, what, disk) ==
  [path |-> path, what |-> what,
   existed |-> (path \in DOMAIN disk /\ disk[path] # "none")]

\* download.save_as(path), shutil.copy2(src, path)
WriteFile(disk, path) ==
  IF path \in DOMAIN disk THEN [disk EXCEPT ![path] = "new"] ELSE disk

\* lines 251-262, listing only the files that kept their path
file_listMutant(archive, renamed) ==
  {[filename |-> n, path |-> n] : n \in archive \ renamed}

\* lines 251-262: one entry per file under the extraction root
file_list(archive, renamed) ==
  {[filename |-> n, path |-> n] : n \in archive}

\* lines 149-151, 159-161, 176, 216-220 and 270-272, with a failure to
\* extract the archive left to the caller
failure_resultMutant(stage) == IF stage = "extract" THEN "raised" ELSE "failed"

\* lines 149-151, 159-161, 176, 216-220 and 270-275: what scrape_course_files
\* does about a failure at a stage: the handlers of the stages, and the
\* handler around the whole body, return the empty list
failure_result(stage) == "failed"

\* lines 123-161: the session is validated, the content page opened and the
\* table-of-contents tab clicked
ContentsOutcomes == {"ok", "session_invalid", "no_content_page", "no_toc"}

IdleFs ==
  [pc |-> "idle", disk |-> [p \in DiskPaths |-> "none"], before |-> [p \in DiskPaths |-> "none"],
   archive |-> {}, todo |-> {}, renamed |-> {}, writes |-> {}, records |-> {},
   result |-> "none", call |-> <<>>, stage |-> "none"]

\* A scrape begins: the downloads directory as earlier scrapes left it, and
\* the archive the course offers.
FsBegin(disk, archive) ==
  /\ fs.pc = "idle"
  /\ fs' = [fs EXCEPT !.pc = "begun", !.disk = disk, !.before = disk,
                      !.archive = archive, !.todo = archive]
  /\ UNCHANGED progVars

\* A call of get_unique_filename on the directory as it is.
FsResolve(path, strategy, ts) ==
  /\ fs.pc = "begun"
  /\ fs' = [fs EXCEPT !.pc = "resolved",
                      !.call = <<[path |-> path, strategy |-> strategy, ts |-> ts,
                                  returned |-> get_unique_filename(fs.disk, path, strategy, ts)]>>]
  /\ UNCHANGED progVars

\* lines 123-161: the way to the table of contents; a session that is not
\* valid and a content page that does not open raise inside the body, a tab
\* that is not found returns
FsOpenContents(outcome) ==
  /\ fs.pc = "begun"
  /\ fs' = IF outcome = "ok" THEN [fs EXCEPT !.pc = "contents"]
           ELSE [fs EXCEPT !.pc = "done", !.stage = outcome,
                           !.result = failure_result(outcome)]
  /\ UNCHANGED progVars

\* lines 170-220: the archive is downloaded and saved: by the first attempt,
\* under the path get_unique_filename gives; by the alternative attempt after
\* the first raised, under the raw path; or not at all.
FsSaveArchive(via, ts) ==
  /\ fs.pc = "contents"
  /\ LET target == IF via = "primary"
                     THEN get_unique_filename(fs.disk, RawPath(ZipName), "rename", ts).path[1]
                     ELSE RawPath(ZipName)
     IN IF via = "failed"
          THEN fs' = [fs EXCEPT !.pc = "done", !.stage = "download",
                                !.result = failure_result("download")]
          ELSE fs' = [fs EXCEPT !.pc = "saved",
                                !.writes = @ \cup {Written(target, "archive", fs.disk)},
                                !.disk = WriteFile(@, target)]
  /\ UNCHANGED progVars

\* lines 223-226: the archive is extracted, or is not a readable archive
FsExtract(ok) ==
  /\ fs.pc = "saved"
  /\ fs' = IF ok THEN [fs EXCEPT !.pc = "copying"]
                 ELSE [fs EXCEPT !.pc = "done", !.stage = "extract",
                                 !.result = failure_result("extract")]
  /\ UNCHANGED progVars

\* lines 229-248: one extracted file is copied into the downloads directory,
\* or the copy raises
FsCopy(name, ts, ok) ==
  /\ fs.pc = "copying"
  /\ name \in fs.todo
  /\ LET r == get_unique_filename(fs.disk, RawPath(name), "rename", ts)
     IN IF ~ok
          THEN fs' = [fs EXCEPT !.pc = "done", !.stage = "copy",
                                !.result = failure_result("copy")]
          ELSE fs' = [fs EXCEPT !.todo = @ \ {name},
                                !.renamed = IF r.action = "rename" THEN @ \cup {name} ELSE @,
                                !.writes = @ \cup {Written(r.path[1], name, fs.disk)},
                                !.disk = WriteFile(@, r.path[1])]
  /\ UNCHANGED progVars

\* lines 250-269: the metadata of the batch is built, written and returned
FsFinish ==
  /\ fs.pc = "copying"
  /\ fs.todo = {}
  /\ fs' = [fs EXCEPT !.pc = "done", !.result = "ok",
                      !.records = file_list(fs.archive, fs.renamed)]
  /\ UNCHANGED progVars

\* ------------------------------------------------ the ingestion of a batch
\* ingest_downloaded_files.py: upload_file (lines 83-112), ingest_course_json
\* (lines 114-164) and append_to_ingestion_log (lines 69-81).  An entry of the
\* metadata is what matters of it to the ingestion: whether its file is there
\* under the downloads directory, and how the backend answers the upload, by
\* its HTTP status ("200" with the JSON body the backend's upload route
\* sends, "409", another status) or by an exception of the request.
Responses == {"200", "409", "500", "exception"}

Entries ==
  {e \in [present : BOOLEAN, response : Responses \cup {"none"}] :
     e.present <=> e.response # "none"}

Batches == UNION {[1..n -> Entries] : n \in 0..MaxEntries}

\* ingestion_log.json before the run: not there, not parseable, or the list
\* earlier runs left.
LogFiles == {"absent", "corrupt", "empty", "one_entry"}

LogEntry(status, content_hash) == [status |-> status, content_hash |-> content_hash]

\* lines 71-78: the log as loaded
LoadLog(file) ==
  IF file = "one_entry" THEN <<LogEntry("uploaded", "sha256")>> ELSE <<>>

\* lines 83-112, with 409 taken for a failure
upload_fileMutant(entry) ==
  CASE entry.response = "200" -> <<"uploaded", "sha256">>
    [] entry.response = "exception" -> <<"failed", Null>>
    [] OTHER -> <<"failed", "sha256">>

\* lines 83-112: the result and the content hash
upload_file(entry) ==
  CASE entry.response = "200" -> <<"uploaded", "sha256">>
    [] entry.response = "409" -> <<"duplicate", "sha256">>
    [] entry.response = "exception" -> <<"failed", Null>>
    [] OTHER -> <<"failed", "sha256">>

IdleIngestion ==
  [pc |-> "idle", entries |-> <<>>, log_file |-> "absent", i |-> 1,
   uploaded |-> 0, duplicate |-> 0, failed |-> 0, missing |-> 0,
   log_entries |-> <<>>, posts |-> 0, log |-> <<>>, returned |-> <<>>]

\* lines 114-126: the metadata is read
IngestBegin(entries, log_file) ==
  /\ ingestion.pc = "idle"
  /\ ingestion' = [ingestion EXCEPT !.pc = "loop", !.entries = entries,
                                    !.log_file = log_file, !.log = LoadLog(log_file)]
  /\ UNCHANGED progVars

\* lines 128-161, with a failed or missing entry ending the loop unlogged
IngestEntryMutant ==
  /\ ingestion.pc = "loop"
  /\ ingestion.i <= Len(ingestion.entries)
  /\ LET entry == ingestion.entries[ingestion.i]
         r == upload_file(entry)
     IN IF ~entry.present \/ r[1] = "failed"
          THEN ingestion' = [ingestion EXCEPT !.i = Len(ingestion.entries) + 1]
          ELSE ingestion' = [ingestion EXCEPT
                               !.i = @ + 1,
                               !.posts = @ + 1,
                               !.log_entries = Append(@, LogEntry(r[1], r[2])),
                               !.uploaded = IF r[1] = "uploaded" THEN @ + 1 ELSE @,
                               !.duplicate = IF r[1] = "duplicate" THEN @ + 1 ELSE @]
  /\ UNCHANGED progVars

\* lines 128-161: one entry of the metadata
IngestEntry ==
  /\ ingestion.pc = "loop"
  /\ ingestion.i <= Len(ingestion.entries)
  /\ LET entry == ingestion.entries[ingestion.i]
         r == upload_file(entry)
     IN IF ~entry.present
          THEN ingestion' = [ingestion EXCEPT
                               !.i = @ + 1,
                               !.missing = @ + 1,
                               !.log_entries = Append(@, LogEntry("missing", Null))]
          ELSE ingestion' = [ingestion EXCEPT
                               !.i = @ + 1,
                               !.posts = @ + 1,
                               !.log_entries = Append(@, LogEntry(r[1], r[2])),
                               !.uploaded = IF r[1] = "uploaded" THEN @ + 1 ELSE @,
                               !.duplicate = IF r[1] = "duplicate" THEN @ + 1 ELSE @,
                               !.failed = IF r[1] \notin {"uploaded", "duplicate"}
                                            THEN @ + 1 ELSE @]
  /\ UNCHANGED progVars

\* lines 162-164 and 69-81: the log is extended and the counts returned
IngestReturn ==
  /\ ingestion.pc = "loop"
  /\ ingestion.i > Len(ingestion.entries)
  /\ ingestion' = [ingestion EXCEPT
                     !.pc = "done",
                     !.log = @ \o ingestion.log_entries,
                     !.returned = <<ingestion.uploaded, ingestion.duplicate,
                                    ingestion.failed, ingestion.missing>>]
  /\ UNCHANGED progVars

\* ------------------------------------- ingestion runs against the backend
\* routers/files.py, POST /upload (lines 150-170), mounted under /api
\* (main.py:55): the file is saved, its text extracted and a row added to
\* the files table; any exception on the way is answered with 400.  The
\* content_hash form field is not a parameter of the route and no row is
\* looked up before the insert.  The answer is the HTTP status and the
\* table after the request; ok says whether the request went through
\* without an exception.
upload_route(rows, content_hash, ok) ==
  IF ok THEN [status |-> "200", rows |-> Append(rows, content_hash)]
        ELSE [status |-> "400", rows |-> rows]

\* The files of a batch of n entries are all there, with contents (and so
\* hashes) 1..n.
IdleBackend ==
  [pc |-> "idle", n |-> 0, i |-> 1, rows |-> <<>>,
   uploaded |-> 0, duplicate |-> 0, failed |-> 0, returns |-> <<>>]

\* ingest_downloaded_files.py lines 114-126: a run begins on the batch
RunBegin(n) ==
  /\ backend.pc \in {"idle", "returned"}
  /\ backend.pc = "returned" => n = backend.n
  /\ Len(backend.returns) < MaxRuns
  /\ backend' = [backend EXCEPT !.pc = "loop", !.n = n, !.i = 1,
                                 !.uploaded = 0, !.duplicate = 0, !.failed = 0]
  /\ UNCHANGED progVars

\* ingest_downloaded_files.py lines 144-160 and 83-112, with the answer of
\* the route
RunUpload(ok) ==
  /\ backend.pc = "loop"
  /\ backend.i <= backend.n
  /\ LET answer == upload_route(backend.rows, backend.i, ok)
         r == upload_file([present |-> TRUE, response |-> answer.status])
     IN backend' = [backend EXCEPT
                      !.i = @ + 1,
                      !.rows = answer.rows,
                      !.uploaded = IF r[1] = "uploaded" THEN @ + 1 ELSE @,
                      !.duplicate = IF r[1] = "duplicate" THEN @ + 1 ELSE @,
                      !.failed = IF r[1] \notin {"uploaded", "duplicate"} THEN @ + 1 ELSE @]
  /\ UNCHANGED progVars

\* ingest_downloaded_files.py lines 162-164
RunReturn ==
  /\ backend.pc = "loop"
  /\ backend.i > backend.n
  /\ backend' = [backend EXCEPT
                   !.pc = "returned",
                   !.returns = Append(@, <<backend.uploaded, backend.duplicate,
                                           backend.failed, 0>>)]
  /\ UNCHANGED progVars

\* ----------------------------------------------- appends to the audit log
\* append_to_ingestion_log (ingest_downloaded_files.py lines 69-81), called
\* at line 162 by every run: the worker process, the in-process service and
\* the command line are separate runs on the same ingestion_log.json, and
\* the function takes no lock.  Its steps are the load of the file (lines
\* 70-77), the open for writing, which truncates the file (line 79), and the
\* dump of the merged list (line 80).  The entries one run appends are one
\* unit, named by the number of the append.
Appenders == 1..2

\* lines 70-77: the list loaded from the file; an empty or missing file
\* gives the empty list
LoadedLog(file) == IF file.state \in {"absent", "truncated"} THEN <<>> ELSE file.log

\* line 78: log.extend(log_entries)
MergedLog(log, log_entries) == log \o log_entries

IdleAudit ==
  [file |-> [state |-> "absent", log |-> <<>>], started |-> 0, written |-> <<>>,
   run |-> [r \in Appenders |-> [pc |-> "idle", log |-> <<>>, log_entries |-> <<>>]]]

\* lines 70-78
AppendLoad(r) ==
  /\ audit.run[r].pc = "idle"
  /\ audit.started < MaxRuns
  /\ audit' = [audit EXCEPT
                 !.started = @ + 1,
                 !.run[r] = [pc |-> "loaded",
                             log |-> MergedLog(LoadedLog(audit.file), <<audit.started + 1>>),
                             log_entries |-> <<audit.started + 1>>]]
  /\ UNCHANGED progVars

\* line 79: open(INGESTION_LOG, 'w')
AppendOpen(r) ==
  /\ audit.run[r].pc = "loaded"
  /\ audit' = [audit EXCEPT !.file = [state |-> "truncated", log |-> <<>>],
                             !.run[r].pc = "open"]
  /\ UNCHANGED progVars

\* line 80: json.dump(log, f)
AppendDump(r) ==
  /\ audit.run[r].pc = "open"
  /\ audit' = [audit EXCEPT
                 !.file = [state |-> "list", log |-> audit.run[r].log],
                 !.written = @ \o audit.run[r].log_entries,
                 !.run[r] = [pc |-> "idle", log |-> <<>>, log_entries |-> <<>>]]
  /\ UNCHANGED progVars

\* ------------------------------------------------ the batch id of a run
\* A scrape_batch_id is the second it was made at.  The scrape stamps it
\* on every entry of the metadata it writes (scrape_onq_files.py lines
\* 254-260) and hands it back (line 720); a scrape that fails returns no
\* files (lines 270-275) but the same course_json_path (lines 714-721), at
\* which the metadata of an earlier scrape of the course may still lie.
\* The three callers of ingest_course_json: the worker
\* (integrated_onq_scraper.py lines 178-185, 237-248) and the in-process
\* service (onq_sync_service.py lines 62, 99-104, 155-162) pass the id of
\* their scrape; the command line (ingest_downloaded_files.py lines 166-188)
\* makes an id of its own when it starts.
Callers == {"worker", "service", "cli"}

BatchIds == 0..MaxClock

\* scrape_onq_files.py lines 250-260: the entries a scrape writes
ScrapedEntries(scrape_batch_id, present) ==
  [k \in DOMAIN present |-> [scrape_batch_id |-> scrape_batch_id, present |-> present[k]]]

\* The id handed to ingest_course_json: integrated_onq_scraper.py line 248,
\* onq_sync_service.py line 161, ingest_downloaded_files.py lines 169, 177, 187
IngestBatchId(caller, metadata, now) == now

IdleBatch ==
  [pc |-> "idle", caller |-> "cli", metadata |-> <<>>, scrape_batch_id |-> 0, i |-> 1,
   log_entries |-> <<>>, forms |-> <<>>]

\* The worker or the service scrapes at second now: on disk lies the
\* metadata of an earlier scrape (made at second earlier) or none, and the
\* scrape writes its own when it succeeds.
BatchScrape(caller, now, ok, earlier, old, present) ==
  /\ stamp.pc = "idle"
  /\ caller \in {"worker", "service"}
  /\ earlier < now
  /\ LET metadata == IF ok THEN ScrapedEntries(now, present)
                      ELSE ScrapedEntries(earlier, old)
     IN stamp' = [stamp EXCEPT
                    !.pc = IF ok \/ old # <<>> THEN "loop" ELSE "done",
                    !.caller = caller,
                    !.metadata = metadata,
                    !.scrape_batch_id = IngestBatchId(caller, metadata, now)]
  /\ UNCHANGED progVars

\* ingest_downloaded_files.py lines 166-188: the command line at second
\* now, on the metadata a scrape at second earlier wrote
BatchCli(now, earlier, old) ==
  /\ stamp.pc = "idle"
  /\ earlier <= now
  /\ LET metadata == ScrapedEntries(earlier, old)
     IN stamp' = [stamp EXCEPT
                    !.pc = "loop",
                    !.caller = "cli",
                    !.metadata = metadata,
                    !.scrape_batch_id = IngestBatchId("cli", metadata, now)]
  /\ UNCHANGED progVars

\* ingest_downloaded_files.py lines 128-160 and 89-99: the log entry of one
\* metadata entry and, when its file is there, the form of its upload
BatchEntry ==
  /\ stamp.pc = "loop"
  /\ stamp.i <= Len(stamp.metadata)
  /\ LET sent == [entry |-> stamp.i, scrape_batch_id |-> stamp.scrape_batch_id]
         logged == [entry |-> stamp.i, scrape_batch_id |-> stamp.scrape_batch_id]
     IN stamp' = [stamp EXCEPT
                    !.i = @ + 1,
                    !.log_entries = Append(@, logged),
                    !.forms = IF stamp.metadata[stamp.i].present THEN Append(@, sent) ELSE @]
  /\ UNCHANGED progVars

\* ingest_downloaded_files.py lines 162-164
BatchReturn ==
  /\ stamp.pc = "loop"
  /\ stamp.i > Len(stamp.metadata)
  /\ stamp' = [stamp EXCEPT !.pc = "done"]
  /\ UNCHANGED progVars

\* ------------------------------------------- the worker's browser session
\* integrated_onq_scraper.py lines 151-210 and what follows them, for every
\* outcome login_and_get_session has once its body runs
\* (playwright_scraper_runner.py lines 8-547): the call is taken with the
\* three arguments and three results of the function's declaration.  The
\* function launches the browser at line 14 and closes it on no path; when
\* it raises (lines 545-547) the caller's browser variable is still the
\* None of line 151, and the finally block (lines 202-210) closes only a
\* browser it holds.
IdleSession == [NoChild EXCEPT !.pc = "idle"]

\* lines 158-201: the login call and the handler of its exception
SessionLogin(env) ==
  /\ session.pc = "idle"
  /\ session' = AfterLoginCall([NoChild EXCEPT !.pc = "login", !.env = env],
                               LoginCall(LoginParams, LoginReturnLen, env)).c
  /\ UNCHANGED progVars

\* lines 174-306: the steps of main() after the login
SessionStep ==
  /\ session.pc \notin {"idle", "login", "done"}
  /\ \E o \in WorkerNext(session, session.env) :
       session' = IF o.exit # <<>> THEN [o.c EXCEPT !.pc = "done"] ELSE o.c
  /\ UNCHANGED progVars

\* ------------------------------------------------- the steps of a login
\* login_and_get_session (playwright_scraper_runner.py) from the sign-in
\* step (line 45) to the classification of the page after the password
\* (line 383), where the 2FA wait takes over.  What the flow meets is given
\* at its start: whether a sign-in control is visible and can be clicked,
\* whether the sign-in leads to the identity provider, what each username
\* strategy finds, whether a submit control is visible at each of the two
\* submits, whether the password field appears, and the page after the
\* password: its URL, the phrases its text holds and whether the
\* authenticator's display element is on it.
Usernames ==
  {<<"netid">>, <<"netid", "@queensu.ca">>, <<"netid", "@gmail.com">>}

\* "@queensu.ca" in username
Qualified(username) == \E k \in 1..Len(username) : username[k] = "@queensu.ca"

\* lines 115-118
full_username(username) ==
  IF ~Qualified(username) THEN username \o <<"@queensu.ca">> ELSE username

\* The URLs of the page after the password, each with the patterns of
\* lines 353-355 it contains.
PostUrls ==
  {"https://onq.queensu.ca/d2l/home", "https://queensu.brightspace.com/",
   "https://login.microsoftonline.com/common/login"}

\* lines 352-356 and 370
success_indicators(current_url) ==
  current_url \in {"https://onq.queensu.ca/d2l/home", "https://queensu.brightspace.com/"}

\* The texts of the page after the password, by the phrases of lines
\* 360-367 they hold.
PostContents == {{}, {"authenticator", "enter the number"}}

\* lines 359-368 and 371
twofa_indicators(page_content) ==
  page_content \cap {"verification", "authenticator", "approve", "notification",
                     "microsoft authenticator", "enter the number", "enter this number",
                     "verification code"} # {}

\* lines 378-543, with the 2FA indicators looked at first
ClassifyPageMutant(current_url, page_content) ==
  IF twofa_indicators(page_content) THEN "twofa_required"
  ELSE IF success_indicators(current_url) THEN "success"
  ELSE "failure"

\* lines 378-543: the order of the three tests
ClassifyPage(current_url, page_content) ==
  IF success_indicators(current_url) THEN "success"
  ELSE IF twofa_indicators(page_content) THEN "twofa_required"
  ELSE "failure"

\* What a username strategy finds: no element, an element that is on the
\* page but cannot be typed into, or a visible field.
FieldStates == {"absent", "hidden", "visible"}

FlowEnvs ==
  [signin : {"none", "visible", "click_fails"},
   idp : BOOLEAN,
   username : Usernames,
   listed : FieldStates,
   by_id : FieldStates,
   submit_username : BOOLEAN,
   password_field : BOOLEAN,
   submit_password : BOOLEAN,
   url : PostUrls,
   content : PostContents,
   display_sign : BOOLEAN]

NoFlowEnv ==
  [signin |-> "none", idp |-> FALSE, username |-> <<"netid">>, listed |-> "absent",
   by_id |-> "absent", submit_username |-> FALSE, password_field |-> FALSE,
   submit_password |-> FALSE, url |-> "https://login.microsoftonline.com/common/login",
   content |-> {}, display_sign |-> FALSE]

IdleFlow ==
  [pc |-> "idle", env |-> NoFlowEnv, clicked_sso |-> FALSE, username_field |-> "none",
   typed |-> <<>>, events |-> <<>>, outcome |-> "none", error |-> Null, url |-> Null]

\* lines 30-34: the login page is opened
FlowOpen(env) ==
  /\ flow.pc = "idle"
  /\ flow' = [flow EXCEPT !.pc = "signin", !.env = env]
  /\ UNCHANGED progVars

\* lines 45-59: the sign-in control; every failure is swallowed (line 55)
FlowSignIn ==
  /\ flow.pc = "signin"
  /\ flow' = [flow EXCEPT !.pc = "username",
                           !.clicked_sso = (flow.env.signin = "visible"),
                           !.events = IF flow.env.signin = "visible"
                                        THEN Append(@, "signin_click") ELSE @]
  /\ UNCHANGED progVars

\* lines 85-106, without the fallback to #i0116
ms_username_fieldMutant(env) == IF env.listed # "absent" THEN "listed" ELSE "none"

\* lines 85-106: the strategies on the identity provider's page look for an
\* element (count() > 0), the listed selectors first and #i0116 last
ms_username_field(env) ==
  IF env.listed # "absent" THEN "listed"
  ELSE IF env.by_id # "absent" THEN "by_id"
  ELSE "none"

\* lines 125-135: the strategies on another page look for a visible field
username_field(env) == IF env.listed = "visible" THEN "listed" ELSE "none"

\* page.fill (lines 120, 144) on the field a strategy found: it raises when
\* the element does not become editable
FillRaises(env, field) ==
  \/ field = "listed" /\ env.listed = "hidden"
  \/ field = "by_id" /\ env.by_id = "hidden"

\* lines 62-145: the username step on either branch
FlowUsername ==
  /\ flow.pc = "username"
  /\ LET env == flow.env
         field == IF env.idp THEN ms_username_field(env) ELSE username_field(env)
         text == IF env.idp THEN full_username(env.username) ELSE env.username
     IN IF field = "none"
          THEN flow' = [flow EXCEPT
                          !.pc = "raised", !.outcome = "raised",
                          !.error = IF env.idp
                                      THEN "Username field not found on Microsoft login page"
                                      ELSE "Username field not found"]
          ELSE IF FillRaises(env, field)
            THEN flow' = [flow EXCEPT !.pc = "raised", !.outcome = "raised",
                                      !.username_field = field,
                                      !.error = "TimeoutError: Page.fill"]
            ELSE flow' = [flow EXCEPT !.pc = "submit_username",
                                      !.username_field = field,
                                      !.typed = text,
                                      !.events = Append(@, "fill_username")]
  /\ UNCHANGED progVars

\* lines 148-166: the submit control, or Enter
FlowSubmitUsername ==
  /\ flow.pc = "submit_username"
  /\ flow' = [flow EXCEPT
                !.pc = "password",
                !.events = Append(@, IF flow.env.submit_username
                                       THEN "submit_click" ELSE "press_enter")]
  /\ UNCHANGED progVars

\* lines 171-173: the password field within its timeout
FlowPassword ==
  /\ flow.pc = "password"
  /\ IF flow.env.password_field
       THEN flow' = [flow EXCEPT !.pc = "submit_password",
                                 !.events = Append(@, "fill_password")]
       ELSE flow' = [flow EXCEPT !.pc = "raised", !.outcome = "raised",
                                 !.error = "TimeoutError: Page.wait_for_selector"]
  /\ UNCHANGED progVars

\* lines 176-208: the submit control, or Enter, and the waits
FlowSubmitPassword ==
  /\ flow.pc = "submit_password"
  /\ flow' = [flow EXCEPT
                !.pc = "detect",
                !.events = Append(@, IF flow.env.submit_password
                                       THEN "submit_click" ELSE "press_enter")]
  /\ UNCHANGED progVars

\* lines 211-349: the wait for the display element, and the scan of the
\* lines of the page when it gave no number
FlowDetect ==
  /\ flow.pc = "detect"
  /\ flow' = [flow EXCEPT
                !.pc = "classify",
                !.events = IF flow.env.display_sign
                             THEN Append(@, "direct_selector_wait")
                             ELSE @ \o <<"direct_selector_wait", "line_scan">>]
  /\ UNCHANGED progVars

\* lines 351-387 and 542-543: the page is classified
FlowClassify ==
  /\ flow.pc = "classify"
  /\ LET class == ClassifyPage(flow.env.url, flow.env.content)
     IN flow' = [flow EXCEPT
                   !.pc = IF class = "success" THEN "returned"
                          ELSE IF class = "twofa_required" THEN "twofa_wait"
                          ELSE "raised",
                   !.outcome = class,
                   !.events = Append(@, "classified"),
                   !.error = IF class = "failure"
                               THEN "Login failed - could not detect 2FA or reach dashboard"
                               ELSE Null,
                   !.url = IF class = "failure" THEN flow.env.url ELSE Null]
  /\ UNCHANGED progVars

\* ------------------------------------------------------ course discovery
\* scrape_onq_files.py: wait_for_dashboard_ready (lines 282-341) and
\* extract_course_links (lines 343-541).  An href is the sequence of the
\* segments of its path; a pattern is a sequence of segments in which "#"
\* stands for (\d+) and "*" for whatever follows a closing slash.
Hrefs ==
  {<<"d2l", "home", "101">>,
   <<"d2l", "le", "content", "101", "Home">>,
   <<"d2l", "le", "content", "102", "Home">>,
   <<"d2l", "le", "content", "102", "viewContent", "7", "View">>,
   <<"d2l", "le", "grades", "101", "list">>,
   <<"d2l", "le", "lessons">>,
   <<"d2l", "home">>}

IsDigits(segment) == segment \in {"101", "102", "7"}

Least(S) == CHOOSE x \in S : \A y \in S : x <= y

\* lines 430-451: the sections that are not courses
exclude_sections ==
  {"userprogress", "news", "calendar", "manageCourses", "discovery", "email",
   "discussions", "dropbox", "quizzes", "grades", "assignments", "checklist", "surveys",
   "selfassessments", "competencies", "rubrics", "outcomes", "attendance", "group",
   "classlist"}

\* lines 455-460: re.search of an exclusion pattern in the href
should_exclude(href) ==
  \E i \in 1..Len(href) :
    /\ i + 3 <= Len(href)
    /\ href[i] = "d2l" /\ href[i + 1] = "le"
    /\ \/ href[i + 2] \in exclude_sections
       \/ href[i + 2] = "content" /\ \E j \in (i + 4)..Len(href) : href[j] = "View"

\* lines 467-472
patterns ==
  << <<"d2l", "home", "#">>,
     <<"d2l", "le", "content", "#", "Home">>,
     <<"d2l", "le", "content", "#", "*">>,
     <<"d2l", "le", "#", "*">> >>

\* re.search(pattern, href) finds a match that starts at segment i
MatchAt(href, pattern, i) ==
  /\ i + Len(pattern) - 1 <= Len(href)
  /\ \A k \in 1..Len(pattern) :
       CASE pattern[k] = "#" -> IsDigits(href[i + k - 1])
         [] pattern[k] = "*" -> TRUE
         [] OTHER -> href[i + k - 1] = pattern[k]

\* lines 474-479: match.group(1) of the first pattern that matches
course_id_of(href) ==
  LET hits(p) == {i \in 1..Len(href) : MatchAt(href, patterns[p], i)}
      matching == {p \in 1..Len(patterns) : hits(p) # {}}
  IN IF matching = {} THEN Null
     ELSE LET p == Least(matching)
              group == CHOOSE k \in 1..Len(patterns[p]) : patterns[p][k] = "#"
          IN href[Least(hits(p)) + group - 1]

\* A link the selectors return: its href and its text.
Links == [href : Hrefs, text : {"Course A", "Course B"}]

LinkLists == UNION {[1..n -> Links] : n \in 0..MaxLinks}

RECURSIVE unique_links(_)
\* lines 407-417: the links without a later link of the same href
unique_links(all_links) ==
  IF all_links = <<>> THEN <<>>
  ELSE LET n == Len(all_links)
           front == unique_links(SubSeq(all_links, 1, n - 1))
       IN IF \E k \in 1..Len(front) : front[k].href = all_links[n].href
            THEN front ELSE Append(front, all_links[n])

\* lines 525-530, with every course appended
add_courseMutant(courses, course) == Append(courses, course)

\* lines 525-530: a course is appended unless its id is already there
add_course(courses, course) ==
  IF \E k \in 1..Len(courses) : courses[k].course_id = course.course_id
    THEN courses ELSE Append(courses, course)

IdleDiscovery ==
  [pc |-> "idle", session |-> "valid", elements |-> FALSE, all_links |-> <<>>,
   links |-> <<>>, i |-> 1, ready |-> FALSE, courses |-> <<>>]

\* lines 343-349: discovery starts on a page
DiscoverBegin(login_session, elements, all_links) ==
  /\ discovery.pc = "idle"
  /\ discovery' = [discovery EXCEPT !.pc = "probe", !.session = login_session,
                                     !.elements = elements, !.all_links = all_links]
  /\ UNCHANGED progVars

\* lines 282-341 and 350-419: the dashboard is probed; a redirect to the
\* login and a dashboard without course elements both give False, and the
\* answer to False is the empty list
DiscoverProbe ==
  /\ discovery.pc = "probe"
  /\ LET ready == discovery.session = "valid" /\ discovery.elements
     IN discovery' = [discovery EXCEPT
                        !.ready = ready,
                        !.pc = IF ready THEN "links" ELSE "done",
                        !.links = IF ready THEN unique_links(discovery.all_links) ELSE <<>>]
  /\ UNCHANGED progVars

\* lines 421-534: one link
DiscoverLink ==
  /\ discovery.pc = "links"
  /\ discovery.i <= Len(discovery.links)
  /\ LET link == discovery.links[discovery.i]
         course_id == course_id_of(link.href)
         course == [course_name |-> link.text, course_id |-> course_id,
                    href |-> link.href]
     IN discovery' = [discovery EXCEPT
                        !.i = @ + 1,
                        !.courses = IF should_exclude(link.href) \/ course_id = Null
                                      THEN @ ELSE add_course(@, course)]
  /\ UNCHANGED progVars

\* lines 536-537
DiscoverReturn ==
  /\ discovery.pc = "links"
  /\ discovery.i > Len(discovery.links)
  /\ discovery' = [discovery EXCEPT !.pc = "done"]
  /\ UNCHANGED progVars

\* ------------------------------------------------------------ the system
InitLibrary ==
  /\ wait = IdleWait
  /\ detect = IdleDetect
  /\ fs = IdleFs
  /\ discovery = IdleDiscovery
  /\ flow = IdleFlow
  /\ session = IdleSession
  /\ stamp = IdleBatch
  /\ audit = IdleAudit
  /\ backend = IdleBackend
  /\ ingestion = IdleIngestion

Init ==
  /\ InitLibrary
  /\ active_processes = {}
  /\ temp_files = {}
  /\ proc = [j \in JobIds |-> "unborn"]
  /\ exitcode = [j \in JobIds |-> 0]
  /\ stderrPipe = [j \in JobIds |-> "empty"]
  /\ statusFile = [j \in JobIds |-> <<>>]
  /\ resultsFile = [j \in JobIds |-> <<>>]
  /\ statusLog = [j \in JobIds |-> <<>>]
  /\ child = [j \in JobIds |-> NoChild]
  /\ nextJob = 1
  /\ parent = <<>>
  /\ resp = Response("none", 0, "none")
  /\ svc = IdleSvc
  /\ sync_status = IdleSyncStatus

\* The supervisor with its workers, and the in-process service, share no
\* state: the tables, processes and scratch files belong to the one,
\* sync_status to the other.  The reachable states of the server are therefore
\* the pairs of a reachable state of each, and a behaviour here exercises one
\* of the two from the initial state.
SupervisorIdle == nextJob = 1

ServiceIdle == svc = IdleSvc /\ sync_status = IdleSyncStatus

Next ==
  \/ ServiceIdle /\ \E creds \in Creds, popen_ok \in BOOLEAN : SyncLms(creds, popen_ok) /\ UNCHANGED libVars
  \/ StartWriteInitial /\ UNCHANGED libVars
  \/ ServiceIdle /\ \E j \in 0..MaxJobs : StatusPoll(j) /\ UNCHANGED libVars
  \/ ServiceIdle /\ Cleanup /\ UNCHANGED libVars
  \/ ServiceIdle /\ ListJobs /\ UNCHANGED libVars
  \/ \E j \in JobIds : Stop(j) /\ UNCHANGED libVars
  \/ \E j \in JobIds : WorkerStep(j) /\ UNCHANGED libVars
  \/ SupervisorIdle /\ resp.op = "none" /\ \E creds \in Creds, env \in LoginEnvs : SvcStart(creds, env) /\ UNCHANGED libVars
  \/ SvcStep /\ UNCHANGED libVars
  \/ SupervisorIdle /\ resp.op = "none" /\ ResetSyncStatus /\ UNCHANGED libVars

Spec == Init /\ [][Next]_vars

\* integrated_onq_scraper.py, lines 128-131 and 59-84: without both
\* credentials on its command line the child prompts for them with input()
\* and getpass() on the stdin it inherited from the server (Popen is given no
\* stdin), and waits there for a line.
AwaitsTerminalInput(j) ==
  Alive(j) /\ child[j].pc = "boot" /\ child[j].creds = "empty"

\* A child that is runnable is scheduled, and each browser and network
\* operation returns or times out: a step of the worker that stays possible
\* is taken, unless it is the read of a line nobody types.
WorkerFairness ==
  \A j \in JobIds :
    WF_vars(~AwaitsTerminalInput(j) /\ WorkerStep(j) /\ UNCHANGED libVars)

SpecLive == Init /\ [][Next]_vars /\ WorkerFairness

\* One 2FA wait, from the moment the challenge is recognised.
NextTwoFactorWait ==
  \/ WaitStart /\ UNCHANGED <<detect, fs, ingestion, backend, audit, stamp, session, flow, discovery>>
  \/ WaitPoll /\ UNCHANGED <<detect, fs, ingestion, backend, audit, stamp, session, flow, discovery>>
  \/ WaitTimeout /\ UNCHANGED <<detect, fs, ingestion, backend, audit, stamp, session, flow, discovery>>

SpecTwoFactorWait == Init /\ [][NextTwoFactorWait]_vars

\* One detection of the 2FA number, on any page.
NextTwoFaDetect ==
  \/ detect.pc = "idle"
       /\ \E display \in Displays, pg \in Pages : DetectLoad(display, pg) /\ UNCHANGED <<wait, fs, ingestion, backend, audit, stamp, session, flow, discovery>>
  \/ DetectRun /\ UNCHANGED <<wait, fs, ingestion, backend, audit, stamp, session, flow, discovery>>

SpecTwoFaDetect == Init /\ [][NextTwoFaDetect]_vars

\* One course scrape from the download of the archive on, and calls of
\* get_unique_filename on the downloads directory.
NextScrapeFiles ==
  \/ fs.pc = "idle"
       /\ \E disk \in Disks, archive \in SUBSET ArchiveNames :
            FsBegin(disk, archive) /\ UNCHANGED <<wait, detect, ingestion, backend, audit, stamp, session, flow, discovery>>
  \/ \E path \in DiskPaths, strategy \in {"rename", "overwrite", "skip"}, ts \in TimeStamps :
       FsResolve(path, strategy, ts) /\ UNCHANGED <<wait, detect, ingestion, backend, audit, stamp, session, flow, discovery>>
  \/ \E outcome \in ContentsOutcomes :
       FsOpenContents(outcome) /\ UNCHANGED <<wait, detect, ingestion, backend, audit, stamp, session, flow, discovery>>
  \/ \E via \in {"primary", "alternative", "failed"}, ts \in TimeStamps :
       FsSaveArchive(via, ts) /\ UNCHANGED <<wait, detect, ingestion, backend, audit, stamp, session, flow, discovery>>
  \/ \E ok \in BOOLEAN : FsExtract(ok) /\ UNCHANGED <<wait, detect, ingestion, backend, audit, stamp, session, flow, discovery>>
  \/ \E name \in ArchiveNames, ts \in TimeStamps, ok \in BOOLEAN :
       FsCopy(name, ts, ok) /\ UNCHANGED <<wait, detect, ingestion, backend, audit, stamp, session, flow, discovery>>
  \/ FsFinish /\ UNCHANGED <<wait, detect, ingestion, backend, audit, stamp, session, flow, discovery>>

SpecScrapeFiles == Init /\ [][NextScrapeFiles]_vars

\* One run of ingest_course_json, on any batch.
NextIngest ==
  \/ ingestion.pc = "idle"
       /\ \E entries \in Batches, log_file \in LogFiles :
            IngestBegin(entries, log_file) /\ UNCHANGED <<wait, detect, fs, backend, audit, stamp, session, flow, discovery>>
  \/ IngestEntry /\ UNCHANGED <<wait, detect, fs, backend, audit, stamp, session, flow, discovery>>
  \/ IngestReturn /\ UNCHANGED <<wait, detect, fs, backend, audit, stamp, session, flow, discovery>>

SpecIngest == Init /\ [][NextIngest]_vars

\* Ingestion runs on one unchanged batch against the backend's upload route.
NextBackend ==
  \/ \E n \in 1..MaxEntries : RunBegin(n) /\ UNCHANGED <<wait, detect, fs, ingestion, audit, stamp, session, flow, discovery>>
  \/ \E ok \in BOOLEAN : RunUpload(ok) /\ UNCHANGED <<wait, detect, fs, ingestion, audit, stamp, session, flow, discovery>>
  \/ RunReturn /\ UNCHANGED <<wait, detect, fs, ingestion, audit, stamp, session, flow, discovery>>

SpecBackend == Init /\ [][NextBackend]_vars

\* Runs appending to the audit log.
NextAudit ==
  \/ \E r \in Appenders : AppendLoad(r) /\ UNCHANGED <<wait, detect, fs, ingestion, backend, stamp, session, flow, discovery>>
  \/ \E r \in Appenders : AppendOpen(r) /\ UNCHANGED <<wait, detect, fs, ingestion, backend, stamp, session, flow, discovery>>
  \/ \E r \in Appenders : AppendDump(r) /\ UNCHANGED <<wait, detect, fs, ingestion, backend, stamp, session, flow, discovery>>

SpecAudit == Init /\ [][NextAudit]_vars

\* One ingestion by each of its callers.
NextBatch ==
  \/ stamp.pc = "idle"
       /\ \E caller \in Callers, now \in TimeStamps, ok \in BOOLEAN, earlier \in BatchIds,
             old, present \in UNION {[1..n -> BOOLEAN] : n \in 0..MaxEntries} :
            BatchScrape(caller, now, ok, earlier, old, present)
              /\ UNCHANGED <<wait, detect, fs, ingestion, backend, audit, session, flow, discovery>>
  \/ stamp.pc = "idle"
       /\ \E now \in TimeStamps, earlier \in BatchIds,
             old \in UNION {[1..n -> BOOLEAN] : n \in 0..MaxEntries} :
            BatchCli(now, earlier, old)
              /\ UNCHANGED <<wait, detect, fs, ingestion, backend, audit, session, flow, discovery>>
  \/ BatchEntry /\ UNCHANGED <<wait, detect, fs, ingestion, backend, audit, session, flow, discovery>>
  \/ BatchReturn /\ UNCHANGED <<wait, detect, fs, ingestion, backend, audit, session, flow, discovery>>

SpecBatch == Init /\ [][NextBatch]_vars

\* The worker from its login call on, the call entering the function.
NextSession ==
  \/ \E env \in LoginEnvs :
       SessionLogin(env) /\ UNCHANGED <<wait, detect, fs, ingestion, backend, audit, stamp, flow, discovery>>
  \/ SessionStep /\ UNCHANGED <<wait, detect, fs, ingestion, backend, audit, stamp, flow, discovery>>

SpecSession == Init /\ [][NextSession]_vars

\* One login, on any pages.
NextFlow ==
  \/ flow.pc = "idle"
       /\ \E env \in FlowEnvs :
            FlowOpen(env)
              /\ UNCHANGED <<wait, detect, fs, ingestion, backend, audit, stamp, session, discovery>>
  \/ FlowSignIn /\ UNCHANGED <<wait, detect, fs, ingestion, backend, audit, stamp, session, discovery>>
  \/ FlowUsername /\ UNCHANGED <<wait, detect, fs, ingestion, backend, audit, stamp, session, discovery>>
  \/ FlowSubmitUsername
       /\ UNCHANGED <<wait, detect, fs, ingestion, backend, audit, stamp, session, discovery>>
  \/ FlowPassword /\ UNCHANGED <<wait, detect, fs, ingestion, backend, audit, stamp, session, discovery>>
  \/ FlowSubmitPassword
       /\ UNCHANGED <<wait, detect, fs, ingestion, backend, audit, stamp, session, discovery>>
  \/ FlowDetect /\ UNCHANGED <<wait, detect, fs, ingestion, backend, audit, stamp, session, discovery>>
  \/ FlowClassify /\ UNCHANGED <<wait, detect, fs, ingestion, backend, audit, stamp, session, discovery>>

SpecFlow == Init /\ [][NextFlow]_vars

\* One course discovery, on any dashboard.
NextDiscovery ==
  \/ discovery.pc = "idle"
       /\ \E login_session \in {"valid", "expired"}, elements \in BOOLEAN, all_links \in LinkLists :
            DiscoverBegin(login_session, elements, all_links)
              /\ UNCHANGED <<wait, detect, fs, ingestion, backend, audit, stamp, session, flow>>
  \/ DiscoverProbe
       /\ UNCHANGED <<wait, detect, fs, ingestion, backend, audit, stamp, session, flow>>
  \/ DiscoverLink
       /\ UNCHANGED <<wait, detect, fs, ingestion, backend, audit, stamp, session, flow>>
  \/ DiscoverReturn
       /\ UNCHANGED <<wait, detect, fs, ingestion, backend, audit, stamp, session, flow>>

SpecDiscovery == Init /\ [][NextDiscovery]_vars

\* ================================================================ claims
\* start(j) has returned and job j is tracked.
Started(j) == j \in active_processes /\ parent = <<>>

\* The child is starting up: it runs and has not yet written "login".
StartingUp(j) == Started(j) /\ Alive(j) /\ child[j].pc \in {"boot", "initialized"}

LastWritten(j) == statusLog[j][Len(statusLog[j])]

C2_CrashRecovery ==
  \A j \in active_processes :
    (~Alive(j) /\ statusFile[j] # <<>> /\ statusFile[j][1].is_running) =>
      IF exitcode[j] = 0
        THEN /\ ~StatusOf(j).is_running
             /\ StatusOf(j).current_step = "completed"
             /\ StatusOf(j).progress = 100
             /\ StatusOf(j).results = resultsFile[j]
        ELSE /\ ~StatusOf(j).is_running
             /\ StatusOf(j).current_step = "error"
             /\ StatusOf(j).error # Null
             /\ StatusOf(j).results = <<>>

C2_Witness ==
  \E j \in active_processes :
    /\ ~Alive(j) /\ exitcode[j] # 0
    /\ statusFile[j] # <<>> /\ statusFile[j][1].is_running
    /\ StatusOf(j).current_step = "error"

\* C3: when login failed in the worker, once the child has exited
\* status(job_id) reports is_running = false and current_step = "error" with
\* an error, never "completed".
C3_LoginFailureIsError ==
  \A j \in active_processes :
    ("login_failed" \in child[j].events /\ ~Alive(j)) =>
      /\ ~StatusOf(j).is_running
      /\ StatusOf(j).current_step = "error"
      /\ StatusOf(j).error # Null

\* C4: in the sequence of statuses written to a job's status file, progress
\* stays within 0..100 and never decreases.
C4_ProgressMonotonic ==
  \A j \in JobIds : \A i \in 1..Len(statusLog[j]) :
    /\ statusLog[j][i].progress \in 0..100
    /\ (i < Len(statusLog[j]) =>
          statusLog[j][i].progress <= statusLog[j][i + 1].progress)

\* The stage order of the specification; "completed" and "error" end it.
NamedStages ==
  {"initializing", "login", "scraping", "processing", "ingesting", "completed",
   "error"}

StageRank(step) ==
  CASE step = "starting" -> 0
    [] step = "initializing" -> 1
    [] step = "login" -> 2
    [] step = "login_complete" -> 3
    [] step = "scraping" -> 4
    [] step = "processing" -> 5
    [] step = "ingesting" -> 6
    [] step \in {"completed", "error"} -> 7
    [] OTHER -> -1

PipelineInOrder(events, uploads) ==
  /\ "scrape_started" \in events => "login_returned" \in events
  /\ "ingest_started" \in events => "scrape_returned" \in events
  /\ "login_failed" \in events =>
       uploads = 0 /\ "scrape_started" \notin events /\ "ingest_started" \notin events
  /\ uploads > 0 => "ingest_started" \in events

\* C6: within one job, in the worker and in the in-process service, scraping
\* starts only after the login returned a session, ingestion only after the
\* scrape returned, and no upload is attempted in a job whose login failed.
C6_LoginDiscoveryIngestion ==
  /\ PipelineInOrder(svc.events, svc.uploads)
  /\ \A j \in JobIds : PipelineInOrder(child[j].events, child[j].uploads)

C6_Witness ==
  /\ svc.uploads > 0
  /\ {"login_returned", "scrape_returned", "ingest_started"} \subseteq svc.events

\* The tracked jobs whose process has not exited.
LiveJobs == {j \in active_processes : Alive(j)}

\* C7: POST /sync_lms answers 400 and spawns no process whenever a tracked
\* job's process has not exited, so the table never holds two jobs whose
\* processes are both running.
C7_SingleLiveJob ==
  /\ [](Cardinality(LiveJobs) <= 1)
  /\ [][((\E creds \in Creds, popen_ok \in BOOLEAN : SyncLms(creds, popen_ok))
           /\ LiveJobs # {})
          => (resp'.out = "400" /\ proc' = proc /\ nextJob' = nextJob)]_vars

C7_Witness == resp.out = "400" /\ LiveJobs # {}

SweepEffect ==
  /\ active_processes' = {j \in active_processes : proc[j] = "running"}
  /\ \A j \in JobIds :
       IF j \in active_processes /\ proc[j] # "running"
         THEN /\ j \notin temp_files'
              /\ statusFile'[j] = <<>>
              /\ resultsFile'[j] = <<>>
         ELSE /\ (j \in temp_files' <=> j \in temp_files)
              /\ statusFile'[j] = statusFile[j]
              /\ resultsFile'[j] = resultsFile[j]

\* C9: the cleanup sweep removes from the job table, and deletes the status
\* and results files of, exactly the jobs whose process has exited; running
\* jobs keep their entry and files; status polling removes and deletes
\* nothing.
C9_CleanupExact ==
  [][/\ (Cleanup \/ ListJobs) => SweepEffect
     /\ (\E j \in 0..MaxJobs : StatusPoll(j)) =>
          UNCHANGED <<active_processes, temp_files, statusFile, resultsFile>>]_vars

C9_Witness ==
  \E j \in JobIds :
    /\ j < nextJob /\ proc[j] = "exited"
    /\ j \notin active_processes /\ j \notin temp_files
    /\ statusFile[j] = <<>>
    /\ \E k \in active_processes : Alive(k) /\ statusFile[k] # <<>>

\* C10: if a 2FA challenge is met during login, the worker writes a status
\* carrying twofa_number with is_running = true before any scraping status,
\* and the job is not moved to the error state because 2FA was required.
C10_TwoFactorSurfaced ==
  \A j \in JobIds :
    ("login_called" \in child[j].events /\ TwoFactorEnv(child[j].env)) =>
      /\ \E i \in 1..Len(statusLog[j]) :
           /\ statusLog[j][i].twofa_number \notin {Absent, Null}
           /\ statusLog[j][i].is_running
      /\ (child[j].env = "twofa_ok" => LastWritten(j).current_step # "error")

\* C11: once the worker has written a status with a non-null error for a job,
\* every later status written to the job's status file still carries a
\* non-null error, and status(job_id) never afterwards shows current_step =
\* "completed" with error = null.
C11_FailureStaysVisible ==
  \A j \in JobIds : \A i \in 1..Len(statusLog[j]) :
    (statusLog[j][i].by = "child" /\ statusLog[j][i].error # Null) =>
      /\ \A k \in 1..Len(statusLog[j]) : i < k => statusLog[j][k].error # Null
      /\ (j \in active_processes =>
            ~(StatusOf(j).current_step = "completed" /\ StatusOf(j).error = Null))

\* C12: the worker process exits with code 0 only on full success: when it
\* exits by itself after a failed login, after any status with an error, or
\* after a failed upload, its exit code is 1.
C12_ExitCodeReportsFailure ==
  \A j \in active_processes :
    (proc[j] = "exited" /\ exitcode[j] \notin {ExitTerminated, ExitKilled}
       /\ \/ "login_failed" \in child[j].events
          \/ \E i \in 1..Len(statusLog[j]) :
               statusLog[j][i].by = "child" /\ statusLog[j][i].error # Null) =>
      exitcode[j] = ExitFail

\* C13: the 2FA wait has only two outcomes: it returns a session, and then
\* only from a poll that saw the dashboard URL and a navigation element or a
\* Dashboard/My Courses text marker, or it raises the post-2FA timeout error,
\* and then only once the 120 s have passed; no poll starts past the bound.
C13_TwoFactorWaitOutcomes ==
  /\ wait.pc = "done" =>
       \/ /\ wait.outcome = "returned"
          /\ DashboardUrl(wait.seen)
          /\ wait.seen.nav \/ wait.seen.text
       \/ /\ wait.outcome = "timeout"
          /\ wait.elapsed >= timeout_seconds
  /\ wait.polls > 0 => wait.started < timeout_seconds

LinesOfClass(pg, class) ==
  {i \in 1..Len(pg) : pg[i].num /\ Classify(pg, i) = class}

\* C15: the 2FA number is the display element's 2-digit number if it has one;
\* otherwise a same-line strong candidate if there is one, else the first
\* following-line strong candidate, else the first weak candidate, else none;
\* a lower tier is never chosen while a higher tier has a candidate.
C15_TierOrder ==
  detect.pc = "done" =>
    IF detect.display = "number"
      THEN detect.twofa_number = <<DisplayNumber>>
    ELSE IF LinesOfClass(detect.page, "same_line") # {}
      THEN \E i \in LinesOfClass(detect.page, "same_line") :
             detect.twofa_number = <<LineNumber(i)>>
    ELSE IF LinesOfClass(detect.page, "following_line") # {}
      THEN detect.twofa_number =
             <<LineNumber(First(LinesOfClass(detect.page, "following_line")))>>
    ELSE IF LinesOfClass(detect.page, "general_context") # {}
      THEN detect.twofa_number =
             <<LineNumber(First(LinesOfClass(detect.page, "general_context")))>>
    ELSE detect.twofa_number = <<>>

\* A following-line strong candidate comes before a same-line one.
C15_Witness ==
  /\ detect.pc = "done" /\ detect.display = "no_number"
  /\ LinesOfClass(detect.page, "following_line") = {2}
  /\ LinesOfClass(detect.page, "same_line") = {3}
  /\ detect.twofa_number = <<LineNumber(3)>>

\* "Enter the number shown to sign in: NN" on one line, "Don't ask again for
\* NN days" on the next.
ExamplePage ==
  <<[text |-> {"enter the number shown to sign in"}, num |-> TRUE, first |-> TRUE],
    [text |-> {"don't ask again for"}, num |-> TRUE, first |-> FALSE]>>

\* C16: a number on a line that holds a remember/stay-signed-in exclusion
\* phrase is never the one selected by the line-context tier, whatever else
\* the line holds; on the example page the detected number is the one of the
\* "enter the number shown" line.
C16_ExcludedNeverSelected ==
  (detect.pc = "done" /\ detect.display # "number") =>
    /\ \A i \in 1..Len(detect.page) :
         (detect.page[i].num /\ AnyPhraseIn(exclusion_phrases, detect.page[i])) =>
           detect.twofa_number # <<LineNumber(i)>>
    /\ detect.page = ExamplePage => detect.twofa_number = <<LineNumber(1)>>

C16_Witness ==
  /\ detect.pc = "done" /\ detect.display = "absent"
  /\ detect.page = ExamplePage
  /\ detect.twofa_number = <<LineNumber(1)>>

\* C17: get_unique_filename on an existing path P under rename returns P with
\* a _<timestamp> suffix inserted before the extension and action rename; on
\* a path that does not exist it returns P and no action; under overwrite on
\* an existing path it returns P; under skip on an existing path it returns
\* null; and the file at P is left untouched.
C17_ResolveTargetPath ==
  (fs.pc = "resolved") =>
    LET c == fs.call[1]
        P == c.path
    IN /\ fs.disk = fs.before
       /\ IF fs.before[P] = "none"
            THEN c.returned.path = <<P>> /\ c.returned.action = Null
          ELSE IF c.strategy = "rename"
            THEN /\ c.returned.action = "rename"
                 /\ c.returned.path = << [base |-> P.base \o <<c.ts>>, ext |-> P.ext] >>
          ELSE IF c.strategy = "overwrite"
            THEN c.returned.path = <<P>>
          ELSE c.returned.path = <<>>

C17_Witness ==
  /\ fs.pc = "resolved"
  /\ fs.call[1].path = RawPath("a.pdf") /\ fs.before[RawPath("a.pdf")] = "old"
  /\ fs.call[1].strategy = "rename"
  /\ fs.call[1].returned.path = << [base |-> <<"a", 2>>, ext |-> ".pdf"] >>

\* C18: every file a scrape saves into the downloads directory, the archive
\* on either download path and each extracted file, is written to a path at
\* which no file was before the write, so that no file of an earlier scrape is
\* overwritten and no two files of the batch end up at the same path.
C18_CollisionFree ==
  /\ \A w \in fs.writes : ~w.existed
  /\ \A p \in DiskPaths : fs.before[p] = "old" => fs.disk[p] = "old"

\* C19: when the extraction succeeded, the metadata of the batch has one
\* entry per file of the archive, and every file of the archive was copied
\* into the downloads directory.
C19_OneRecordPerFile ==
  (fs.pc = "done" /\ fs.result = "ok") =>
    /\ Cardinality(fs.records) = Cardinality(fs.archive)
    /\ {r.filename : r \in fs.records} = fs.archive
    /\ {w.what : w \in fs.writes} = fs.archive \cup {"archive"}

C19_Witness ==
  /\ fs.pc = "done" /\ fs.result = "ok"
  /\ fs.archive = ArchiveNames /\ fs.renamed = {"a.pdf"}
  /\ Cardinality(fs.records) = 2

\* The entries of a batch that are of a given kind.
EntriesWhere(batch, Test(_)) == Cardinality({i \in 1..Len(batch) : Test(batch[i])})

IsUploaded(e) == e.present /\ e.response = "200"

IsDuplicate(e) == e.present /\ e.response = "409"

IsFailed(e) == e.present /\ e.response \notin {"200", "409"}

IsMissing(e) == ~e.present

\* 200 for a.pdf and 409 for sub/b.docx
ExampleBatch ==
  <<[present |-> TRUE, response |-> "200"], [present |-> TRUE, response |-> "409"]>>

C21_FailureDoesNotAbort ==
  [][/\ (ingestion.pc = "loop" /\ ingestion.i <= Len(ingestion.entries)) =>
          /\ ingestion'.pc = "loop"
          /\ ingestion'.i = ingestion.i + 1
          /\ Len(ingestion'.log_entries) = ingestion.i
          /\ ingestion'.posts =
               ingestion.posts + (IF ingestion.entries[ingestion.i].present THEN 1 ELSE 0)
     /\ (ingestion.pc = "loop" /\ ingestion'.pc = "done") =>
          /\ ingestion.i = Len(ingestion.entries) + 1
          /\ Len(ingestion.log_entries) = Len(ingestion.entries)
          /\ ingestion'.log = LoadLog(ingestion.log_file) \o ingestion.log_entries
     /\ ingestion'.pc \in {"idle", "loop", "done"}]_vars

C21_Witness ==
  /\ ingestion.pc = "done"
  /\ ingestion.entries = <<[present |-> TRUE, response |-> "exception"],
                           [present |-> TRUE, response |-> "200"]>>
  /\ ingestion.posts = 2
  /\ ingestion.log = LoadLog(ingestion.log_file)
                       \o <<LogEntry("failed", Null), LogEntry("uploaded", "sha256")>>

\* C22: ingestion is idempotent with respect to the backend.  A run on the
\* unchanged batch that follows a run in which every file was uploaded
\* returns uploaded = 0 and duplicate = the number of entries, and the
\* backend holds no file twice.
C22_IdempotentIngestion ==
  /\ \A k \in 1..(Len(backend.returns) - 1) :
       backend.returns[k] = <<backend.n, 0, 0, 0>> =>
         backend.returns[k + 1] = <<0, backend.n, 0, 0>>
  /\ \A a, b \in 1..Len(backend.rows) : backend.rows[a] = backend.rows[b] => a = b

\* C23: the audit log is append-only.  Whenever no run is in the middle of
\* an append, the log holds every entry that was ever written to it, in the
\* order the entries were written, whether or not the appends interleaved.
C23_AuditLogAppendOnly ==
  (\A r \in Appenders : audit.run[r].pc = "idle") =>
    LoadedLog(audit.file) = audit.written

\* C24: scrape_batch_id joins scraping and ingestion.  Every audit-log
\* entry written for a metadata entry, and the scrape_batch_id field of the
\* form sent with its upload, carry the scrape_batch_id of that metadata
\* entry, whoever called the ingestion.
C24_BatchIdJoins ==
  /\ \A k \in 1..Len(stamp.log_entries) :
       stamp.log_entries[k].scrape_batch_id
         = stamp.metadata[stamp.log_entries[k].entry].scrape_batch_id
  /\ \A k \in 1..Len(stamp.forms) :
       stamp.forms[k].scrape_batch_id
         = stamp.metadata[stamp.forms[k].entry].scrape_batch_id

C26_StopTerminates ==
  [][/\ (resp'.op = "stop" /\ resp' # resp) =>
          CASE resp'.out = "stopped" ->
                 \E j \in active_processes :
                   /\ Alive(j)
                   /\ ~Alive(j)'
                   /\ exitcode'[j] \in {ExitTerminated, ExitKilled}
                   /\ ~StatusOf(j)'.is_running
                   /\ \A k \in JobIds \ {j} : proc'[k] = proc[k] /\ exitcode'[k] = exitcode[k]
                   /\ UNCHANGED <<active_processes, temp_files, statusFile, resultsFile>>
            [] resp'.out = "already_finished" ->
                 /\ \E j \in active_processes : ~Alive(j)
                 /\ UNCHANGED <<active_processes, temp_files, proc, exitcode, statusFile,
                                resultsFile, child>>
            [] resp'.out = "error" ->
                 /\ JobIds \ active_processes # {}
                 /\ UNCHANGED <<active_processes, temp_files, proc, exitcode, statusFile,
                                resultsFile, child>>
            [] OTHER -> FALSE
     /\ \A j \in JobIds :
          (exitcode'[j] \in {ExitTerminated, ExitKilled} /\ exitcode'[j] # exitcode[j]) =>
            /\ j \in active_processes /\ Alive(j) /\ ~Alive(j)'
            /\ resp' = Response("stop", j, "stopped")
            /\ ~StatusOf(j)'.is_running]_vars

C26_Witness ==
  /\ resp = Response("stop", 1, "stopped")
  /\ \E j \in active_processes :
       /\ ~Alive(j)
       /\ exitcode[j] = ExitKilled
       /\ ~StatusOf(j).is_running
       /\ StatusOf(j).current_step = "error"

\* The events of a login so far.
FlowEvents == {flow.events[k] : k \in 1..Len(flow.events)}

\* C27: after the password the page is classified into exactly one of
\* three outcomes, in this order: success when the URL matches a dashboard
\* pattern (the session is returned), otherwise 2FA required when the text
\* holds a 2FA phrase, otherwise failure, raised with the URL last read; a
\* page with a dashboard URL and 2FA phrases is a success.
C27_ClassificationOrder ==
  "classified" \in FlowEvents =>
    LET dashboard == success_indicators(flow.env.url)
        phrases == twofa_indicators(flow.env.content)
    IN /\ flow.outcome \in {"success", "twofa_required", "failure"}
       /\ flow.outcome = "success" <=> dashboard
       /\ flow.outcome = "twofa_required" <=> (~dashboard /\ phrases)
       /\ flow.outcome = "failure" <=> (~dashboard /\ ~phrases)
       /\ flow.outcome = "success" => flow.pc = "returned" /\ flow.error = Null
       /\ flow.outcome = "twofa_required" => flow.pc = "twofa_wait" /\ flow.error = Null
       /\ flow.outcome = "failure" =>
            /\ flow.pc = "raised"
            /\ flow.error = "Login failed - could not detect 2FA or reach dashboard"
            /\ flow.url = flow.env.url

C27_Witness ==
  /\ "classified" \in FlowEvents
  /\ success_indicators(flow.env.url)
  /\ twofa_indicators(flow.env.content)
  /\ flow.outcome = "success"
  /\ flow.pc = "returned"

\* C28: the detection of the 2FA code runs only on a page classified as
\* 2FA-required: on a login that goes straight to the dashboard neither the
\* wait for the display element nor the scan of the lines is executed.
C28_DetectionOnlyOnTwoFactor ==
  /\ ("direct_selector_wait" \in FlowEvents \/ "line_scan" \in FlowEvents) =>
       "classified" \in FlowEvents
  /\ flow.outcome \in {"success", "failure"} =>
       /\ "direct_selector_wait" \notin FlowEvents
       /\ "line_scan" \notin FlowEvents

\* C29: the username typed into the form is the qualified institutional
\* e-mail on both branches: a username without @queensu.ca is typed with
\* the domain appended, a qualified one unchanged.
C29_UsernameQualified ==
  "fill_username" \in FlowEvents =>
    flow.typed = IF Qualified(flow.env.username) THEN flow.env.username
                 ELSE flow.env.username \o <<"@queensu.ca">>

\* What the login does when a control it looks for is not there: without a
\* sign-in control that can be clicked it goes on to the form; where no
\* submit control is visible it presses Enter; on the identity provider's
\* page a field the listed selectors do not find is taken by its id.
MissingControlsPassedOver ==
  /\ (flow.pc \notin {"idle", "signin"} /\ flow.env.signin # "visible") =>
       ~flow.clicked_sso /\ flow.error # "TimeoutError: Page.click"
  /\ \A k \in 1..(Len(flow.events) - 1) :
       /\ flow.events[k] = "fill_username" =>
            flow.events[k + 1] = IF flow.env.submit_username THEN "submit_click"
                                                              ELSE "press_enter"
       /\ flow.events[k] = "fill_password" =>
            flow.events[k + 1] = IF flow.env.submit_password THEN "submit_click"
                                                              ELSE "press_enter"
  /\ (flow.pc \notin {"idle", "signin", "username"} /\ flow.env.idp
        /\ flow.env.listed = "absent" /\ flow.env.by_id = "visible") =>
       flow.username_field = "by_id" /\ "fill_username" \in FlowEvents
  /\ (flow.pc \notin {"idle", "signin", "username"} /\ ~flow.env.idp
        /\ flow.env.listed = "visible") =>
       "fill_username" \in FlowEvents

\* The login was ended by an error before the page after the password was
\* classified.
FatalBeforeClassification == flow.pc = "raised" /\ "classified" \notin FlowEvents

UsernameExhausted ==
  IF flow.env.idp THEN flow.env.listed = "absent" /\ flow.env.by_id = "absent"
                  ELSE flow.env.listed # "visible"

\* A username strategy found an element that page.fill cannot type into.
UsernameNotFillable ==
  /\ flow.env.idp
  /\ \/ flow.env.listed = "hidden"
     \/ flow.env.listed = "absent" /\ flow.env.by_id = "hidden"

\* C30, as stated: a control that is not found during the sign-in, username
\* and submit steps is never fatal by itself, and the only fatal field
\* conditions are that every username strategy is exhausted or that no
\* password field appears within the timeout.
C30_OnlyTwoFatalFieldConditions ==
  /\ MissingControlsPassedOver
  /\ FatalBeforeClassification =>
       \/ UsernameExhausted
       \/ "fill_username" \in FlowEvents /\ ~flow.env.password_field

\* C30, amended: a control that is not found during the sign-in, username
\* and submit steps is never fatal by itself, and the fatal field
\* conditions are exactly three: every username strategy is exhausted; on
\* the identity provider's page the first strategy that finds an element
\* finds one that cannot be typed into; no password field appears within
\* the timeout.
C30_FatalFieldConditions ==
  /\ MissingControlsPassedOver
  /\ FatalBeforeClassification =>
       \/ UsernameExhausted /\ flow.username_field = "none"
       \/ UsernameNotFillable /\ flow.error = "TimeoutError: Page.fill"
       \/ "fill_username" \in FlowEvents /\ ~flow.env.password_field
  /\ (flow.pc \notin {"idle", "signin", "username"} /\ (UsernameExhausted \/ UsernameNotFillable))
       => FatalBeforeClassification
  /\ (flow.pc \notin {"idle", "signin", "username", "submit_username", "password"}
        /\ ~flow.env.password_field) => FatalBeforeClassification

C30_Witness ==
  /\ flow.pc = "classify"
  /\ flow.env.signin = "none"
  /\ flow.env.idp
  /\ flow.env.listed = "absent"
  /\ flow.username_field = "by_id"
  /\ ~flow.env.submit_username
  /\ ~flow.env.submit_password
  /\ flow.events = <<"fill_username", "press_enter", "fill_password", "press_enter",
                      "direct_selector_wait", "line_scan">>

\* The hrefs an exclusion pattern matches, and the hrefs without a course
\* id, written out.
ExcludedHrefs ==
  {<<"d2l", "le", "content", "102", "viewContent", "7", "View">>,
   <<"d2l", "le", "grades", "101", "list">>}

HrefsWithoutId == {<<"d2l", "le", "lessons">>, <<"d2l", "home">>}

\* The course id an href of a course carries, written out.
WrittenCourseId(href) ==
  IF href \in {<<"d2l", "home", "101">>, <<"d2l", "le", "content", "101", "Home">>}
    THEN "101" ELSE "102"

\* C31: the list discovery returns is unique by course_id, the first
\* occurrence in link order winning; it holds no course from a link whose
\* href matches an exclusion pattern and none from a link without a course
\* id.
C31_CoursesUniqueFirstWins ==
  discovery.pc = "done" =>
    LET courses == discovery.courses
        all_links == discovery.all_links
        Eligible(k) == all_links[k].href \notin ExcludedHrefs \cup HrefsWithoutId
        IdAt(k) == WrittenCourseId(all_links[k].href)
        Firsts == {k \in 1..Len(all_links) :
                     Eligible(k) /\ \A m \in 1..(k - 1) : Eligible(m) => IdAt(m) # IdAt(k)}
    IN /\ \A a, b \in 1..Len(courses) :
            courses[a].course_id = courses[b].course_id => a = b
       /\ \A a \in 1..Len(courses) :
            /\ courses[a].href \notin ExcludedHrefs \cup HrefsWithoutId
            /\ courses[a].course_id = WrittenCourseId(courses[a].href)
            /\ \E k \in Firsts :
                 /\ all_links[k].href = courses[a].href
                 /\ all_links[k].text = courses[a].course_name
       /\ discovery.ready => Len(courses) = Cardinality(Firsts)
       /\ \A a, b \in 1..Len(courses) :
            a < b => \E k, m \in Firsts :
                       /\ k < m
                       /\ IdAt(k) = courses[a].course_id
                       /\ IdAt(m) = courses[b].course_id

C31_Witness ==
  /\ discovery.pc = "done"
  /\ Len(discovery.all_links) = 3
  /\ discovery.all_links[1].href = <<"d2l", "le", "grades", "101", "list">>
  /\ discovery.all_links[2] = [href |-> <<"d2l", "home", "101">>, text |-> "Course A"]
  /\ discovery.all_links[3] =
       [href |-> <<"d2l", "le", "content", "101", "Home">>, text |-> "Course B"]
  /\ Len(discovery.courses) = 1
  /\ discovery.courses[1].course_name = "Course A"
  /\ discovery.courses[1].course_id = "101"

\* What discovery returns for a valid session on a dashboard without course
\* links.
NoCoursesFound == <<>>

\* C32: a redirect back to the login during the dashboard probe is reported
\* as session expiry: the result of discovery for an expired session
\* differs from its result for a valid session on a dashboard without
\* course links.
C32_ExpiryDistinctFromNoCourses ==
  discovery.pc = "done" =>
    /\ (discovery.session = "valid" /\ discovery.all_links = <<>>) =>
         discovery.courses = NoCoursesFound
    /\ discovery.session = "expired" => discovery.courses # NoCoursesFound

\* The worker as it stands when a scrape has returned the files of fs.
AfterScrape ==
  [NoChild EXCEPT !.pc = "scraped", !.files = Cardinality(fs.records), !.json = TRUE,
                  !.browser = "closed"]

C34_MetadataNamesMaterializedFile ==
  (fs.pc = "done" /\ fs.result = "ok") =>
    \A r \in fs.records :
      \E w \in fs.writes : w.what = r.filename /\ w.path = RawPath(r.path)

\* C35: the supervisor's initial status write never replaces a status the
\* child has already written: the statuses written to a job's file never go
\* from one the child wrote to the supervisor's "starting", progress 0.
C35_InitialWriteNeverReplacesChild ==
  \A j \in JobIds : \A i \in 1..(Len(statusLog[j]) - 1) :
    statusLog[j][i].by = "child" =>
      ~ /\ statusLog[j][i + 1].by = "parent"
        /\ statusLog[j][i + 1].current_step = "starting"
        /\ statusLog[j][i + 1].progress = 0

\* C36: every started job eventually reaches a terminal state, its process
\* exited and status(job_id) reporting is_running = false, when every browser
\* and network operation returns or times out, nobody types on the child's
\* terminal and the supervisor never reads the child's pipes.
C36_EveryJobTerminates ==
  \A j \in JobIds :
    (j \in active_processes /\ Alive(j)) ~> (~Alive(j) /\ ~StatusOf(j).is_running)

\* C37: the final status and results of a finished job stay retrievable: a
\* POST /sync_lms or a GET /sync_lms/jobs made after the job's process exited
\* never changes what status(job_id) returns for that job.
C37_FinishedJobStaysRetrievable ==
  [][\A j \in JobIds :
       (/\ j \in active_processes
        /\ ~Alive(j)
        /\ ListJobs \/ \E creds \in Creds, popen_ok \in BOOLEAN : SyncLms(creds, popen_ok))
         => StatusOf(j)' = StatusOf(j)]_vars

C39_TablesInStep ==
  parent = <<>> => temp_files = active_processes

====
